---- MODULE Spec2Model ----
(***************************************************************************)
(* The front-matter parser and the blog aggregator of the travel journal   *)
(* (utils/blogProcessor.ts with types/BlogType.ts and utils/logger.ts).    *)
(*                                                                         *)
(* A text is a sequence of symbols.  A symbol is one character ("-", ":",  *)
(* " ", "\n", ...) or a word: a maximal run of letters or of digits that   *)
(* no operation of the code looks inside ("title", "2024").  Every string  *)
(* operation of the code (trim, startsWith, indexOf, slice, split) is      *)
(* computed on these sequences with JavaScript's 0-based indices.          *)
(*                                                                         *)
(* A JavaScript value is a record [t |-> type, v |-> payload].             *)
(***************************************************************************)
EXTENDS Integers, Sequences, FiniteSets, TLC

(***************************************************************************)
(* JavaScript values                                                       *)
(***************************************************************************)
Str(s) == [t |-> "str", v |-> s]
Bool(b) == [t |-> "bool", v |-> b]
Num(n) == [t |-> "num", v |-> n]
DateV(d) == [t |-> "date", v |-> d]
List(xs) == [t |-> "list", v |-> xs]
Map(es) == [t |-> "map", v |-> es]
Null == [t |-> "null", v |-> 0]
Undefined == [t |-> "undef", v |-> 0]
\* the completion of an operation that raised
Throw == [t |-> "throw", v |-> 0]

\* ToBoolean: the truthiness every `if (x)`, `x || y` and Boolean(x) uses
Truthy(x) ==
  CASE x.t = "str" -> x.v # <<>>
    [] x.t = "bool" -> x.v
    [] x.t = "num" -> x.v # 0
    [] x.t \in {"null", "undef"} -> FALSE
    [] OTHER -> TRUE

\* a || b
OrElse(a, b) == IF Truthy(a) THEN a ELSE b

(***************************************************************************)
(* Objects: the own enumerable properties in insertion order, as a         *)
(* sequence of <<key, value>>.                                             *)
(***************************************************************************)
Keys(o) == {o[i][1] : i \in 1..Len(o)}
HasKey(o, k) == \E i \in 1..Len(o) : o[i][1] = k
\* o[k]: undefined when the property is absent
Get(o, k) ==
  IF HasKey(o, k) THEN o[CHOOSE i \in 1..Len(o) : o[i][1] = k][2] ELSE Undefined
\* o[k] = x: an existing property keeps its position
Put(o, k, x) ==
  IF HasKey(o, k)
    THEN [i \in 1..Len(o) |-> IF o[i][1] = k THEN <<k, x>> ELSE o[i]]
    ELSE Append(o, <<k, x>>)
RECURSIVE Assign(_, _)
\* { ...a, ...b } and the Object.keys(b).forEach copy
Assign(a, b) ==
  IF b = <<>> THEN a ELSE Assign(Put(a, b[1][1], b[1][2]), Tail(b))
\* the properties as a mapping: equality of objects whatever the key order
AsMapping(o) == [k \in Keys(o) |-> Get(o, k)]
\* x.k and x?.k: undefined unless x is an object that has the property
Prop(x, k) == IF x.t = "map" THEN Get(x.v, k) ELSE Undefined

(***************************************************************************)
(* Strings                                                                 *)
(***************************************************************************)
IsWs(c) == c \in {" ", "\n"}
Min(a, b) == IF a < b THEN a ELSE b
Max(a, b) == IF a > b THEN a ELSE b
\* String.prototype.trim
Trim(s) ==
  LET keep == {i \in 1..Len(s) : ~IsWs(s[i])}
  IN IF keep = {} THEN <<>>
     ELSE SubSeq(s, CHOOSE i \in keep : \A j \in keep : i <= j,
                    CHOOSE i \in keep : \A j \in keep : i >= j)
\* String.prototype.startsWith
StartsWith(s, p) == Len(s) >= Len(p) /\ SubSeq(s, 1, Len(p)) = p
EndsWith(s, p) == Len(s) >= Len(p) /\ SubSeq(s, Len(s) - Len(p) + 1, Len(s)) = p
\* p stands in s at position i (1-based)
Has(s, i, p) == i >= 1 /\ i + Len(p) - 1 <= Len(s) /\ SubSeq(s, i, i + Len(p) - 1) = p
\* String.prototype.indexOf(p, from): 0-based, -1 when absent
IndexOf(s, p, from) ==
  LET hits == {i \in from..(Len(s) - Len(p)) : SubSeq(s, i + 1, i + Len(p)) = p}
  IN IF hits = {} THEN -1 ELSE CHOOSE i \in hits : \A j \in hits : i <= j
\* String.prototype.slice(a, b) and slice(a), for 0 <= a
Slice(s, a, b) == SubSeq(s, a + 1, Min(b, Len(s)))
SliceFrom(s, a) == SubSeq(s, a + 1, Len(s))
RECURSIVE Split(_, _)
\* String.prototype.split(sep) for a one-symbol separator
Split(s, sep) ==
  LET i == IndexOf(s, <<sep>>, 0)
  IN IF i = -1 THEN <<s>> ELSE <<Slice(s, 0, i)>> \o Split(SliceFrom(s, i + 1), sep)
RECURSIVE Join(_, _)
\* Array.prototype.join(sep)
Join(parts, sep) ==
  IF parts = <<>> THEN <<>>
  ELSE IF Len(parts) = 1 THEN parts[1]
  ELSE parts[1] \o sep \o Join(Tail(parts), sep)

(***************************************************************************)
(* js-yaml, on the YAML the documents of the model are written in: block   *)
(* mappings `key: value`, nested by indentation, block sequences `- item`, *)
(* flow sequences `[a, b]`, single-quoted and plain scalars.               *)
(***************************************************************************)
\* the indicator characters; every other non-blank symbol is a word
Punct == {"-", ":", ",", "[", "]", "'", "#", "{", "}", "*", ".", "~", "(", ")"}
\* the decimal integers of the model: IntSyms[n + 1] is the numeral of n
IntSyms == <<"0", "1", "2", "3", "4", "5">>
\* the days of the model's dates 2024-06-dd: DaySyms[d] is the day of instant d
DaySyms == <<"01", "02", "03">>
IsDate(s) ==
  /\ Len(s) = 5
  /\ s[1] = "2024" /\ s[2] = "-" /\ s[3] = "06" /\ s[4] = "-"
  /\ \E d \in 1..Len(DaySyms) : DaySyms[d] = s[5]
DateText(d) == <<"2024", "-", "06", "-", DaySyms[d]>>
IntOf(c) == (CHOOSE n \in 1..Len(IntSyms) : IntSyms[n] = c) - 1
IsInt(c) == \E n \in 1..Len(IntSyms) : IntSyms[n] = c

\* the value of a plain scalar under the default schema (bool, null, int, timestamp)
ResolvePlain(s) ==
  CASE s \in {<<"true">>, <<"True">>, <<"TRUE">>} -> Bool(TRUE)
    [] s \in {<<"false">>, <<"False">>, <<"FALSE">>} -> Bool(FALSE)
    [] s \in {<<"null">>, <<"Null">>, <<"NULL">>, <<"~">>} -> Null
    [] Len(s) = 1 /\ IsInt(s[1]) -> Num(IntOf(s[1]))
    [] Len(s) = 2 /\ s[1] = "-" /\ IsInt(s[2]) -> Num(0 - IntOf(s[2]))
    [] IsDate(s) -> DateV(CHOOSE d \in 1..Len(DaySyms) : DaySyms[d] = s[5])
    [] OTHER -> Str(s)

\* a scalar that is not a flow collection: single-quoted or plain
LoadScalar(s) ==
  IF s = <<>> THEN Null
  ELSE IF s[1] = "'"
    THEN IF Len(s) >= 2 /\ IndexOf(s, <<"'">>, 1) = Len(s) - 1
           THEN Str(SubSeq(s, 2, Len(s) - 1))
           ELSE Throw
  ELSE IF \/ IndexOf(s, <<":", " ">>, 0) # -1
          \/ s[Len(s)] = ":"
          \/ s[1] \in {"[", "]", "{", "}", ",", "#", "*"}
          \/ s[1] \in {"-", ":"} /\ (Len(s) = 1 \/ s[2] = " ")
    THEN Throw
  ELSE ResolvePlain(s)

\* the value after `key: ` or `- `: a flow sequence or a scalar
LoadValue(s) ==
  IF s = <<"{", "}">> THEN Map(<<>>)
  ELSE IF s # <<>> /\ s[1] = "["
    THEN IF s[Len(s)] # "]" \/ IndexOf(s, <<"]">>, 0) # Len(s) - 1
                             \/ IndexOf(s, <<"[">>, 1) # -1
           THEN Throw
           ELSE LET inner == Trim(SubSeq(s, 2, Len(s) - 1))
                    items == Split(inner, ",")
                    vals == [i \in 1..Len(items) |-> LoadScalar(Trim(items[i]))]
                IN IF inner = <<>> THEN List(<<>>)
                   ELSE IF \E i \in 1..Len(items) :
                             Trim(items[i]) = <<>> \/ vals[i] = Throw
                     THEN Throw
                     ELSE List(vals)
    ELSE LoadScalar(s)

\* the lines of a block with their indentation, blank lines dropped
YamlLines(text) ==
  LET raw == Split(text, "\n")
      ind(l) == IF \A i \in 1..Len(l) : l[i] = " " THEN Len(l)
                ELSE (CHOOSE i \in 1..Len(l) :
                        l[i] # " " /\ \A j \in 1..(i - 1) : l[j] = " ") - 1
      one(l) == [indent |-> ind(l), content |-> Trim(l)]
  IN SelectSeq([i \in 1..Len(raw) |-> one(raw[i])], LAMBDA l : l.content # <<>>)

RECURSIVE LoadBlock(_)
\* a block node: a block sequence when its first line is `- item`, else a
\* block mapping; Throw is what js-yaml raises a YAMLException for
LoadBlock(lines) ==
  LET ind == lines[1].indent
      isItem(l) == l.content = <<"-">> \/ StartsWith(l.content, <<"-", " ">>)
      \* the lines of the first entry: its own and the deeper ones after it
      n == IF \E i \in 2..Len(lines) : lines[i].indent <= ind
             THEN (CHOOSE i \in 2..Len(lines) :
                     lines[i].indent <= ind
                     /\ \A j \in 2..(i - 1) : lines[j].indent > ind) - 1
             ELSE Len(lines)
      head == lines[1].content
      deeper == SubSeq(lines, 2, n)
      rest == SubSeq(lines, n + 1, Len(lines))
      restVal == IF rest = <<>> THEN (IF isItem(lines[1]) THEN List(<<>>) ELSE Map(<<>>))
                 ELSE IF rest[1].indent # ind THEN Throw
                 ELSE LoadBlock(rest)
  IN IF isItem(lines[1])
       THEN LET item == IF deeper # <<>> THEN Throw
                        ELSE LoadValue(Trim(SubSeq(head, 2, Len(head))))
            IN IF item = Throw \/ restVal = Throw \/ restVal.t # "list" THEN Throw
               ELSE List(<<item>> \o restVal.v)
       ELSE LET quoted == Len(head) >= 4 /\ head[1] = "'" /\ head[3] = "'"
                key == IF quoted THEN head[2] ELSE head[1]
                \* the position of the colon that ends the key
                c == IF quoted THEN 4 ELSE 2
                keyed == Len(head) >= c /\ key \notin Punct /\ head[c] = ":"
                         /\ (Len(head) = c \/ head[c + 1] = " ")
                val == IF ~keyed THEN Throw
                       ELSE IF Len(head) = c
                         THEN (IF deeper = <<>> THEN Null ELSE LoadBlock(deeper))
                       ELSE IF deeper # <<>> THEN Throw
                       ELSE LoadValue(Trim(SubSeq(head, c + 1, Len(head))))
            IN IF val = Throw \/ restVal = Throw \/ restVal.t # "map" THEN Throw
               ELSE IF HasKey(restVal.v, key) THEN Throw
               ELSE Map(<<<<key, val>>>> \o restVal.v)

\* yaml.load: undefined for an empty document, a scalar for a one-line
\* document that is no mapping entry, else the block node
YamlLoad(text) ==
  LET lines == YamlLines(text)
      h == lines[1].content
  IN IF lines = <<>> THEN Undefined
     ELSE IF /\ Len(lines) = 1
             /\ h # <<"-">> /\ ~StartsWith(h, <<"-", " ">>)
             /\ ~(Len(h) >= 2 /\ h[2] = ":" /\ (Len(h) = 2 \/ h[3] = " "))
             /\ ~(Len(h) >= 4 /\ h[1] = "'" /\ h[3] = "'" /\ h[4] = ":")
       THEN LoadValue(h)
     ELSE LoadBlock(lines)

\* String(x), as normalizeFrontmatter applies it to a date that is no string
RECURSIVE JsString(_)
JsString(x) ==
  CASE x.t = "str" -> x.v
    [] x.t = "bool" -> IF x.v THEN <<"true">> ELSE <<"false">>
    [] x.t = "num" -> IF x.v < 0 THEN <<"-", IntSyms[1 - x.v]>> ELSE <<IntSyms[x.v + 1]>>
    [] x.t = "date" -> <<"Jun", " ", DaySyms[x.v], " ", "2024">>
    [] x.t = "list" -> Join([i \in 1..Len(x.v) |-> JsString(x.v[i])], <<",">>)
    [] x.t = "map" -> <<"[", "object", " ", "Object", "]">>
    [] x.t = "null" -> <<"null">>
    [] OTHER -> <<"undefined">>

\* the scalar styles of yaml.dump: plain when the text reads back as the same
\* string, single-quoted otherwise
DumpScalar(x) ==
  LET s == x.v
      plain == /\ s # <<>>
               /\ ~IsWs(s[1]) /\ s[1] \notin Punct
               /\ ~IsWs(s[Len(s)]) /\ s[Len(s)] # ":"
               /\ IndexOf(s, <<":", " ">>, 0) = -1
               /\ IndexOf(s, <<" ", "#">>, 0) = -1
               /\ ResolvePlain(s) = Str(s)
  IN CASE x.t = "str" -> IF plain THEN s ELSE <<"'">> \o s \o <<"'">>
       [] x.t = "date" -> DateText(x.v)
       [] OTHER -> JsString(x)

RECURSIVE DumpEntries(_, _)
\* a block mapping at indentation ind, one property a line, the sequences and
\* mappings nested two deeper (indent: 2)
DumpEntries(o, ind) ==
  LET pad(n) == [i \in 1..n |-> " "]
      k == o[1][1]
      x == o[1][2]
      key == IF ResolvePlain(<<k>>) = Str(<<k>>) THEN <<k>> ELSE <<"'", k, "'">>
      item(y) == pad(ind + 2) \o <<"-", " ">> \o DumpScalar(y) \o <<"\n">>
      node == CASE x.t = "list" /\ x.v = <<>> -> <<" ", "[", "]", "\n">>
                [] x.t = "list" /\ x.v # <<>> ->
                     <<"\n">> \o Join([i \in 1..Len(x.v) |-> item(x.v[i])], <<>>)
                [] x.t = "map" /\ x.v = <<>> -> <<" ", "{", "}", "\n">>
                [] x.t = "map" /\ x.v # <<>> -> <<"\n">> \o DumpEntries(x.v, ind + 2)
                [] OTHER -> <<" ">> \o DumpScalar(x) \o <<"\n">>
  IN IF o = <<>> THEN <<>>
     ELSE pad(ind) \o key \o <<":">> \o node \o DumpEntries(Tail(o), ind)

\* yaml.dump of an object; it raises on a value no YAML type represents
YamlDump(o) ==
  IF \E i \in 1..Len(o) : o[i][2].t \in {"undef", "throw"} THEN Throw
  ELSE IF o = <<>> THEN Str(<<"{", "}", "\n">>)
  ELSE Str(DumpEntries(o, 0))

(***************************************************************************)
(* FrontmatterParser                                                       *)
(***************************************************************************)
DEFAULT_FRONTMATTER ==
  <<<<"draft", Bool(FALSE)>>, <<"featured", Bool(FALSE)>>, <<"tags", List(<<>>)>>>>

\* the own enumerable properties an object spread copies from a value
Spread(x) ==
  CASE x.t = "map" -> x.v
    [] x.t = "list" -> [i \in 1..Len(x.v) |-> <<IntSyms[i], x.v[i]>>]
    [] x.t = "str" -> [i \in 1..Len(x.v) |-> <<IntSyms[i], Str(<<x.v[i]>>)>>]
    [] OTHER -> <<>>

\* a slip: the pieces of a comma-separated string are not trimmed
NormalizeTags_NoTrim(tags) ==
  IF Truthy(tags) /\ tags.t # "list"
    THEN IF tags.t = "str"
           THEN LET parts == Split(tags.v, ",")
                IN List([i \in 1..Len(parts) |-> Str(parts[i])])
           ELSE List(<<>>)
    ELSE tags

NormalizeTags(tags) ==
  IF Truthy(tags) /\ tags.t # "list"
    THEN IF tags.t = "str"
           THEN LET parts == Split(tags.v, ",")
                IN List([i \in 1..Len(parts) |-> Str(Trim(parts[i]))])
           ELSE List(<<>>)
    ELSE tags

\* a slip: only strings are converted
NormalizeFlag_StringsOnly(x) == IF x.t = "str" THEN Bool(Truthy(x)) ELSE x

NormalizeFlag(x) == IF x.t # "undef" /\ x.t # "bool" THEN Bool(Truthy(x)) ELSE x

normalizeFrontmatter(data) ==
  LET copied == Assign(DEFAULT_FRONTMATTER, data)
      tagged == Put(copied, "tags", NormalizeTags(Get(copied, "tags")))
      date == Get(tagged, "date")
      dated == IF Truthy(date) /\ date.t # "str"
                 THEN Put(tagged, "date", Str(JsString(date))) ELSE tagged
      drafted == Put(dated, "draft", NormalizeFlag(Get(dated, "draft")))
  IN Put(drafted, "featured", NormalizeFlag(Get(drafted, "featured")))

Ok(x) == [t |-> "ok", v |-> x]

\* a slip: the fallback returns the trimmed text
Fallback_Trimmed(rawContent) ==
  Ok([frontmatter |-> DEFAULT_FRONTMATTER, content |-> Trim(rawContent.v),
      hasFrontmatter |-> FALSE])

\* the result of parse when no metadata block is found or it does not decode
Fallback(rawContent) ==
  Ok([frontmatter |-> DEFAULT_FRONTMATTER, content |-> rawContent.v,
      hasFrontmatter |-> FALSE])

\* a slip: the decode error is passed on to the caller
CatchYaml_Rethrow(rawContent) == Throw

\* the catch clause around yaml.load and normalizeFrontmatter
CatchYaml(rawContent) == Fallback(rawContent)

\* FrontmatterParser.parse; Throw when rawContent is no string (rawContent.trim
\* raises and Logger.withTryCatchSync re-throws)
parse(rawContent) ==
  IF rawContent.t # "str" THEN Throw
  ELSE
    LET trimmedContent == Trim(rawContent.v)
        secondDelimiterIndex == IndexOf(trimmedContent, <<"\n", "-", "-", "-">>, 3)
        frontmatterText == Trim(Slice(trimmedContent, 3, secondDelimiterIndex))
        content == Trim(SliceFrom(trimmedContent, secondDelimiterIndex + 4))
        loaded == YamlLoad(frontmatterText)
        parsed == OrElse(loaded, Map(<<>>))
    IN IF ~StartsWith(trimmedContent, <<"-", "-", "-">>) THEN Fallback(rawContent)
       ELSE IF secondDelimiterIndex = -1 THEN Fallback(rawContent)
       ELSE IF loaded = Throw THEN CatchYaml(rawContent)
       ELSE Ok([frontmatter |->
                  normalizeFrontmatter(Assign(DEFAULT_FRONTMATTER, Spread(parsed))),
                content |-> content,
                hasFrontmatter |-> TRUE])

\* a slip: the closing delimiter is left out
create_NoClose(frontmatter) ==
  LET yamlString == YamlDump(frontmatter)
  IN IF yamlString = Throw THEN <<"-", "-", "-", "\n">>
     ELSE <<"-", "-", "-", "\n">> \o yamlString.v

\* FrontmatterParser.create
create(frontmatter) ==
  LET yamlString == YamlDump(frontmatter)
  IN IF yamlString = Throw THEN <<"-", "-", "-", "\n", "-", "-", "-", "\n">>
     ELSE <<"-", "-", "-", "\n">> \o yamlString.v \o <<"-", "-", "-", "\n">>

\* the characters [0-9\-]+ of a date annotation
DateChars == {"-", "2024", "06"} \cup {IntSyms[i] : i \in 1..Len(IntSyms)}
               \cup {DaySyms[i] : i \in 1..Len(DaySyms)}

\* the first match of ^<prefix>\s*([0-9\-]+)<suffix> over the lines of content,
\* trimmed; Undefined when no line matches
MatchDate(content, prefix, suffix) ==
  LET from(i) == \* the first symbol after the white space that follows the prefix
        CHOOSE j \in (i + Len(prefix))..(Len(content) + 1) :
          /\ \A k \in (i + Len(prefix))..(j - 1) : IsWs(content[k])
          /\ (j = Len(content) + 1 \/ ~IsWs(content[j]))
      upto(i) == \* the first symbol after the digits and dashes
        CHOOSE j \in from(i)..(Len(content) + 1) :
          /\ \A k \in from(i)..(j - 1) : content[k] \in DateChars
          /\ (j = Len(content) + 1 \/ content[j] \notin DateChars)
      hit(i) == /\ i = 1 \/ content[i - 1] = "\n"
                /\ Has(content, i, prefix)
                /\ upto(i) > from(i)
                /\ \E j \in (from(i) + 1)..upto(i) : Has(content, j, suffix)
      hits == {i \in 1..Len(content) : hit(i)}
      first == CHOOSE i \in hits : \A j \in hits : i <= j
      \* the longest run of digits and dashes that the suffix still follows
      stop == CHOOSE j \in (from(first) + 1)..upto(first) :
                /\ Has(content, j, suffix)
                /\ \A k \in (j + 1)..upto(first) : ~Has(content, k, suffix)
  IN IF hits = {} THEN Undefined
     ELSE Str(Trim(SubSeq(content, from(first), stop - 1)))

\* FrontmatterParser.extractDateFromContent
extractDateFromContent(content) ==
  LET dateMatch1 == MatchDate(content, <<"*", "Date", ":">>, <<"*">>)
      dateMatch2 == MatchDate(content, <<"*", "*", "Date", ":", "*", "*">>, <<>>)
      dateMatch3 == MatchDate(content, <<"Date", ":">>, <<>>)
  IN IF dateMatch1 # Undefined THEN dateMatch1
     ELSE IF dateMatch2 # Undefined THEN dateMatch2
     ELSE dateMatch3

\* FrontmatterParser.extractTitleFromContent: the first match of /^#\s+(.+)$/m
extractTitleFromContent(content) ==
  LET after(i) == \* the first symbol after the white space that follows the #
        CHOOSE j \in (i + 1)..(Len(content) + 1) :
          /\ \A k \in (i + 1)..(j - 1) : IsWs(content[k])
          /\ (j = Len(content) + 1 \/ ~IsWs(content[j]))
      heads == {i \in 1..(Len(content) - 1) :
                  /\ content[i] = "#"
                  /\ i = 1 \/ content[i - 1] = "\n"
                  /\ IsWs(content[i + 1])}
      first == CHOOSE i \in heads : \A j \in heads : i <= j
      eol == LET e == IndexOf(content, <<"\n">>, after(first) - 1)
             IN IF e = -1 THEN Len(content) ELSE e
  IN IF heads = {} THEN Undefined
     ELSE IF after(first) > Len(content) THEN Str(<<>>)
     ELSE Str(Trim(SubSeq(content, after(first), eol)))

(***************************************************************************)
(* BlogExtractor                                                           *)
(***************************************************************************)
\* BlogExtractor.config.previewLength
PreviewLength == 150

\* BlogExtractor.generateSlug: the file name without directory and .md suffix
generateSlug(filePath) ==
  LET parts == Split(filePath, "/")
      name == parts[Len(parts)]
  IN IF EndsWith(name, <<".", "md">>) THEN SubSeq(name, 1, Len(name) - 2) ELSE name

\* word.charAt(0).toUpperCase() + word.slice(1), on the words of the model
Capitalize(word) ==
  IF word = <<>> THEN <<>>
  ELSE <<CASE word[1] = "a" -> "A" [] word[1] = "b" -> "B" [] word[1] = "c" -> "C"
           [] word[1] = "my" -> "My" [] word[1] = "trip" -> "Trip"
           [] OTHER -> word[1]>> \o Tail(word)

\* generateTitleFromSlug, were it to return the slug as it is
generateTitleFromSlug_Raw(slug) == slug

\* BlogExtractor.generateTitleFromSlug
generateTitleFromSlug(slug) ==
  LET words == Split(slug, "-")
  IN Join([i \in 1..Len(words) |-> Capitalize(words[i])], <<" ">>)

RECURSIVE StripHeaders(_)
\* content.replace(/#{1,6}\s+/g, "")
StripHeaders(x) ==
  LET run == CHOOSE k \in 0..Len(x) :
               (\A i \in 1..k : x[i] = "#") /\ (k = Len(x) \/ x[k + 1] # "#")
      k == Min(run, 6)
      ws == CHOOSE w \in 0..(Len(x) - k) :
              (\A i \in 1..w : IsWs(x[k + i])) /\ (k + w = Len(x) \/ ~IsWs(x[k + w + 1]))
  IN IF x = <<>> THEN <<>>
     ELSE IF k >= 1 /\ ws >= 1 THEN StripHeaders(SubSeq(x, k + ws + 1, Len(x)))
     ELSE <<x[1]>> \o StripHeaders(Tail(x))

RECURSIVE StripPairs(_, _, _, _)
\* x.replace(/<open>(.*?)<mid>.*?<close>/g, "$1") for literal delimiters, the
\* dots not matching a line break; mid = close = <<>> gives /<open>(.*?)<open>/
StripPairs(x, open, mid, close) ==
  LET sameLine(i, j) == \A k \in i..j : x[k] # "\n"
      second == IF mid = <<>> THEN open ELSE mid
      ends == {j \in (Len(open) + 1)..Len(x) :
                 Has(x, j, second) /\ sameLine(Len(open) + 1, j - 1)}
      j == CHOOSE e \in ends : \A f \in ends : e <= f
      from == j + Len(second)
      lasts == {e \in from..Len(x) : Has(x, e, close) /\ sameLine(from, e - 1)}
      e == CHOOSE l \in lasts : \A m \in lasts : l <= m
  IN IF x = <<>> THEN <<>>
     ELSE IF Has(x, 1, open) /\ ends # {} /\ (mid = <<>> \/ lasts # {})
       THEN SubSeq(x, Len(open) + 1, j - 1)
            \o StripPairs(SubSeq(x, (IF mid = <<>> THEN from ELSE e + Len(close)), Len(x)),
                          open, mid, close)
     ELSE <<x[1]>> \o StripPairs(Tail(x), open, mid, close)

RECURSIVE JoinLines(_)
\* x.replace(/\n+/g, " ")
JoinLines(x) ==
  IF x = <<>> THEN <<>>
  ELSE IF x[1] # "\n" THEN <<x[1]>> \o JoinLines(Tail(x))
  ELSE IF Len(x) >= 2 /\ x[2] = "\n" THEN JoinLines(Tail(x))
  ELSE <<" ">> \o JoinLines(Tail(x))

\* BlogExtractor.generateDescription (extractContentPreview is true)
generateDescription(content) ==
  LET plainText == Trim(JoinLines(
                     StripPairs(
                       StripPairs(
                         StripPairs(StripHeaders(content), <<"*", "*">>, <<>>, <<>>),
                         <<"*">>, <<>>, <<>>),
                       <<"[">>, <<"]", "(">>, <<")">>)))
  IN IF Len(plainText) > PreviewLength
       THEN SubSeq(plainText, 1, PreviewLength) \o <<".", ".", ".">>
       ELSE plainText

\* the record extractMeta builds from what parse returned
BlogMetaOf(r, filePath, slug) ==
  LET frontmatter == r.frontmatter
      markdownContent == r.content
      title == IF Truthy(Get(frontmatter, "title")) THEN Get(frontmatter, "title")
               ELSE OrElse(extractTitleFromContent(markdownContent),
                           OrElse(Str(generateTitleFromSlug(slug)), Str(<<"Untitled">>)))
      date == IF Truthy(Get(frontmatter, "date")) THEN Get(frontmatter, "date")
              ELSE extractDateFromContent(markdownContent)
  IN << <<"slug", Str(slug)>>,
        <<"title", title>>,
        <<"date", date>>,
        <<"author", OrElse(Get(frontmatter, "author"), Undefined)>>,
        <<"tags", OrElse(Get(frontmatter, "tags"), List(<<>>))>>,
        <<"category", Get(frontmatter, "category")>>,
        <<"description", OrElse(Get(frontmatter, "description"),
                                Str(generateDescription(markdownContent)))>>,
        <<"location", Get(frontmatter, "location")>>,
        <<"featured", OrElse(Get(frontmatter, "featured"), Bool(FALSE))>>,
        <<"draft", OrElse(Get(frontmatter, "draft"), Bool(FALSE))>>,
        <<"filePath", Str(filePath)>>,
        <<"hasFrontmatter", Bool(r.hasFrontmatter)>> >>

\* a function object, such as the members of Object.prototype
Fn == [t |-> "fn", v |-> 0]

\* the property names every object inherits from Object.prototype
ObjectPrototype ==
  { <<"constructor">>, <<"toString">>, <<"valueOf">>, <<"hasOwnProperty">>,
    <<"isPrototypeOf">>, <<"toLocaleString">>, <<"propertyIsEnumerable">> }

\* key in blogMeta: an own property, or one blogMeta inherits
In(key, blogMeta) == HasKey(blogMeta, key) \/ <<key>> \in ObjectPrototype

\* the custom fields: the keys of frontmatter that are not in blogMeta
WithCustomFields(blogMeta, frontmatter) ==
  blogMeta \o SelectSeq(frontmatter, LAMBDA e : ~In(e[1], blogMeta))

\* what extractMeta makes of the result of parse
ExtractFrom(r, filePath) ==
  IF r = Throw THEN Throw
  ELSE Ok(WithCustomFields(BlogMetaOf(r.v, filePath, generateSlug(filePath)),
                           r.v.frontmatter))

\* BlogExtractor.extractMeta with the default configuration (no defaultAuthor);
\* Throw when parse raises
extractMeta(content, filePath) == ExtractFrom(parse(content), filePath)

\* BLOG_VALIDATION_SCHEMA.required
RequiredOfSchema == <<"title", "slug">>

\* x < lo || x > hi: a number is compared, a numeral is read as its number,
\* every other value of the model reads as NaN or is within the range
OutOfRange(x, lo, hi) ==
  IF x.t = "num" THEN x.v < lo \/ x.v > hi
  ELSE IF x.t = "str" /\ Len(x.v) = 1 /\ IsInt(x.v[1])
    THEN IntOf(x.v[1]) < lo \/ IntOf(x.v[1]) > hi
  ELSE FALSE

RECURSIVE SomeEmptyTag(_)
\* tags.some((tag) => !tag.trim()): a boolean, or Throw at the first tag that
\* has no trim method
SomeEmptyTag(tags) ==
  IF tags = <<>> THEN Bool(FALSE)
  ELSE IF tags[1].t # "str" THEN Throw
  ELSE IF Trim(tags[1].v) = <<>> THEN Bool(TRUE)
  ELSE SomeEmptyTag(Tail(tags))

\* blog.tags && blog.tags.some((tag) => !tag.trim()): a boolean, or Throw
EmptyTags(blog) ==
  LET tags == Get(blog, "tags")
  IN IF ~Truthy(tags) THEN Bool(FALSE)
     ELSE IF tags.t # "list" THEN Throw
     ELSE SomeEmptyTag(tags.v)

\* the result of validateBlog once the check of the tags has given emptyTags
ValidationResult(blog, emptyTags) ==
  LET missingFields == SelectSeq(RequiredOfSchema, LAMBDA field : ~Truthy(Get(blog, field)))
      location == Get(blog, "location")
      coordinates == Prop(location, "coordinates")
      lat == Prop(coordinates, "lat")
      lng == Prop(coordinates, "lng")
      checked == Truthy(location) /\ Truthy(coordinates)
      errors ==
        [i \in 1..Len(missingFields) |-> <<"Missing required field: ", missingFields[i]>>]
        \o (IF checked /\ (lat.t # "num" \/ lng.t # "num")
              THEN << <<"Invalid location coordinates">> >> ELSE <<>>)
        \o (IF checked /\ OutOfRange(lat, -90, 90)
              THEN << <<"Latitude must be between -90 and 90">> >> ELSE <<>>)
        \o (IF checked /\ OutOfRange(lng, -180, 180)
              THEN << <<"Longitude must be between -180 and 180">> >> ELSE <<>>)
      date == Get(blog, "date")
      warnings ==
        (IF Truthy(date) /\ ~IsDate(JsString(date))
           THEN << <<"Date should be in YYYY-MM-DD format">> >> ELSE <<>>)
        \o (IF emptyTags = Bool(TRUE) THEN << <<"Empty tags found">> >> ELSE <<>>)
  IN IF emptyTags = Throw THEN Throw
     ELSE Ok(<< <<"isValid", Bool(errors = <<>>)>>,
                <<"missingFields", missingFields>>,
                <<"errors", errors>>,
                <<"warnings", warnings>> >>)

\* BlogExtractor.validateBlog: the result, or Throw when it raises
validateBlog(blog) == ValidationResult(blog, EmptyTags(blog))

(***************************************************************************)
(* BlogProcessor: the pure parts                                           *)
(***************************************************************************)
DEFAULT_BLOG_PROCESSING_OPTIONS ==
  << <<"includeDrafts", Bool(FALSE)>>,
     <<"requiredFields", List(<<>>)>>,
     <<"sortBy", Str(<<"date">>)>>,
     <<"sortOrder", Str(<<"desc">>)>>,
     <<"filterBy", Map(<<>>)>> >>


NaN == [t |-> "nan", v |-> 0]

\* new Date(x).getTime(): the instant of a date the model writes, as YYYY-MM-DD
\* or as String(date) gives it, NaN for any other text.  Only strings reach
\* it: normalizeFrontmatter makes a string of every other truthy date.
DateTime(x) ==
  IF x.t # "str" THEN NaN
  ELSE IF IsDate(x.v) THEN Num(CHOOSE d \in 1..Len(DaySyms) : DaySyms[d] = x.v[5])
  ELSE IF \E d \in 1..Len(DaySyms) : x.v = JsString(DateV(d))
    THEN Num(CHOOSE d \in 1..Len(DaySyms) : x.v = JsString(DateV(d)))
  ELSE NaN

\* FrontmatterParser.validate
validate(frontmatter, requiredFields) ==
  \A i \in 1..Len(requiredFields) :
    LET value == Get(frontmatter, requiredFields[i])
    IN value # Undefined /\ value # Null /\ value # Str(<<>>)

\* hasCoordinates of types/BlogType.ts
hasCoordinates(blog) ==
  LET coordinates == Prop(Get(blog, "location"), "coordinates")
  IN Truthy(Prop(coordinates, "lat")) /\ Truthy(Prop(coordinates, "lng"))

\* BlogProcessor.passesFilter
passesFilter(blog, filters) ==
  LET ftags == Get(filters, "tags")
      tags == Get(blog, "tags")
      dateRange == Get(filters, "dateRange")
      blogDate == DateTime(Get(blog, "date"))
      before(a, b) == a.t = "num" /\ b.t = "num" /\ a.v < b.v
  IN /\ (Truthy(ftags) /\ Len(ftags.v) > 0) =>
          (Truthy(tags) /\ \E i \in 1..Len(ftags.v) :
                             \E j \in 1..Len(tags.v) : tags.v[j] = ftags.v[i])
     /\ Truthy(Get(filters, "category")) =>
          Get(blog, "category") = Get(filters, "category")
     /\ Get(filters, "featured") # Undefined =>
          Get(blog, "featured") = Get(filters, "featured")
     /\ Truthy(Get(filters, "author")) =>
          Get(blog, "author") = Get(filters, "author")
     /\ Get(filters, "hasLocation") # Undefined =>
          Bool(Truthy(Prop(Get(blog, "location"), "coordinates")))
            = Get(filters, "hasLocation")
     /\ (Truthy(dateRange) /\ Truthy(Get(blog, "date"))) =>
          /\ ~(Truthy(Prop(dateRange, "start"))
               /\ before(blogDate, DateTime(Prop(dateRange, "start"))))
          /\ ~(Truthy(Prop(dateRange, "end"))
               /\ before(DateTime(Prop(dateRange, "end")), blogDate))

\* the comparator of sortBlogs, were it to return the comparison whatever the order
Comparison_Ascending(a, b, sortBy, order) ==
  LET time(x) == IF Truthy(Get(x, "date")) THEN DateTime(Get(x, "date")) ELSE Num(0)
      flag(x) == IF Truthy(Get(x, "featured")) THEN 1 ELSE 0
  IN CASE sortBy = Str(<<"date">>) ->
            IF time(a) = NaN \/ time(b) = NaN THEN 0 ELSE time(a).v - time(b).v
       [] sortBy = Str(<<"featured">>) -> flag(a) - flag(b)
       [] OTHER -> 0

\* the comparator of sortBlogs; a NaN difference counts as 0 in Array.sort.
\* The localeCompare orders (title, author, category) are used by no call of
\* the model.
Comparison(a, b, sortBy, order) ==
  LET time(x) == IF Truthy(Get(x, "date")) THEN DateTime(Get(x, "date")) ELSE Num(0)
      flag(x) == IF Truthy(Get(x, "featured")) THEN 1 ELSE 0
      comparison ==
        CASE sortBy = Str(<<"date">>) ->
               IF time(a) = NaN \/ time(b) = NaN THEN 0 ELSE time(a).v - time(b).v
          [] sortBy = Str(<<"featured">>) -> flag(a) - flag(b)
          [] OTHER -> 0
  IN IF order = Str(<<"desc">>) THEN 0 - comparison ELSE comparison

RECURSIVE sortBlogs(_, _, _)
\* BlogProcessor.sortBlogs: Array.prototype.sort, which is stable
sortBlogs(blogs, sortBy, order) ==
  LET n == Len(blogs)
      front == sortBlogs(SubSeq(blogs, 1, n - 1), sortBy, order)
      x == blogs[n]
      \* x goes after the last element that does not sort after it
      stay == {i \in 1..(n - 1) : Comparison(front[i], x, sortBy, order) <= 0}
      at == IF stay = {} THEN 0 ELSE CHOOSE i \in stay : \A j \in stay : i >= j
  IN IF n <= 1 THEN blogs
     ELSE SubSeq(front, 1, at) \o <<x>> \o SubSeq(front, at + 1, n - 1)

\* a slip: the error is logged and null returned
withTryCatch_Swallow(result) == IF result = Throw THEN Ok(Null) ELSE result

\* Logger.withTryCatch: it logs and passes on what the operation returned or raised
withTryCatch(result) == result

\* a slip: drafts are never left out
SkipsDraft_Never(opts, meta) == FALSE

\* the draft check of getAllBlogMeta
SkipsDraft(opts, meta) ==
  ~Truthy(Get(opts, "includeDrafts")) /\ Truthy(Get(meta, "draft"))

\* a slip: a failed file empties the list collected so far
CatchFile_Restart(blogMetaList) == <<>>

\* the catch clause of the loop of getAllBlogMeta: the file is logged and left out
CatchFile(blogMetaList) == blogMetaList

\* the requiredFields check of getAllBlogMeta
MissesRequired(requiredFields, meta) ==
  /\ Truthy(requiredFields)
  /\ Len(requiredFields.v) > 0
  /\ ~validate(meta, [i \in 1..Len(requiredFields.v) |-> requiredFields.v[i].v[1]])

\* a slip: the filter is not applied
Collect_NoFilter(opts, blogMetaList, r) ==
  IF r = Throw THEN CatchFile(blogMetaList)
  ELSE IF SkipsDraft(opts, r.v) THEN blogMetaList
  ELSE IF MissesRequired(Get(opts, "requiredFields"), r.v) THEN blogMetaList
  ELSE Append(blogMetaList, r.v)

\* the body of the try of the loop, from the record extracted (Throw when
\* extractMeta raised)
Collect(opts, blogMetaList, r) ==
  IF r = Throw THEN CatchFile(blogMetaList)
  ELSE IF SkipsDraft(opts, r.v) THEN blogMetaList
  ELSE IF MissesRequired(Get(opts, "requiredFields"), r.v) THEN blogMetaList
  ELSE IF Truthy(Get(opts, "filterBy")) /\ ~passesFilter(r.v, Get(opts, "filterBy").v)
    THEN blogMetaList
  ELSE Append(blogMetaList, r.v)

\* one turn of the loop of getAllBlogMeta, for a file whose import gave content
\* (Throw when the import was rejected)
ProcessFile(opts, blogMetaList, content, filePath) ==
  IF content = Throw THEN CatchFile(blogMetaList)
  ELSE Collect(opts, blogMetaList, extractMeta(content, filePath))

(***************************************************************************)
(* BlogProcessor: what the queries built on getAllBlogMeta compute         *)
(***************************************************************************)
\* o[k] on a plain object {}: the own property, else the inherited one
Lookup(o, k) ==
  IF HasKey(o, k) THEN Get(o, k)
  ELSE IF k \in ObjectPrototype THEN Fn
  ELSE Undefined

\* x + 1: a sum for a number, a concatenation for anything else of the model
PlusOne(x) ==
  IF x.t = "num" THEN Num(x.v + 1)
  ELSE IF x.t = "fn" THEN Str(<<"function Object() { [native code] }", "1">>)
  ELSE Str(JsString(x) \o <<"1">>)

\* counts[key] = (counts[key] || 0) + 1
CountOne(counts, key) == Put(counts, key, PlusOne(OrElse(Lookup(counts, key), Num(0))))

RECURSIVE CountTags(_, _)
\* blog.tags.forEach of getTagsWithCounts; a tag is a key by its String()
CountTags(counts, tags) ==
  IF tags = <<>> THEN counts
  ELSE CountTags(CountOne(counts, JsString(tags[1])), Tail(tags))

RECURSIVE CountAllTags(_, _)
\* blogs.forEach of getTagsWithCounts
CountAllTags(counts, blogs) ==
  IF blogs = <<>> THEN counts
  ELSE CountAllTags(
         IF Truthy(Get(blogs[1], "tags")) THEN CountTags(counts, Get(blogs[1], "tags").v)
         ELSE counts,
         Tail(blogs))

\* b.count - a.count as Array.sort reads it: NaN, when a count is no number, is 0
CountComparison(a, b) ==
  IF a[2].t = "num" /\ b[2].t = "num" THEN b[2].v - a[2].v ELSE 0

RECURSIVE SortByCount(_)
\* .sort((a, b) => b.count - a.count), stable
SortByCount(entries) ==
  LET n == Len(entries)
      front == SortByCount(SubSeq(entries, 1, n - 1))
      x == entries[n]
      stay == {i \in 1..(n - 1) : CountComparison(front[i], x) <= 0}
      at == IF stay = {} THEN 0 ELSE CHOOSE i \in stay : \A j \in stay : i >= j
  IN IF n <= 1 THEN entries
     ELSE SubSeq(front, 1, at) \o <<x>> \o SubSeq(front, at + 1, n - 1)

\* getTagsWithCounts from the list getAllBlogMeta returned.  Object.entries
\* gives the keys in insertion order: no tag of the model reads as an integer.
TagsWithCounts(blogs) ==
  IF blogs = Throw THEN Throw
  ELSE LET sorted == SortByCount(CountAllTags(<<>>, blogs.v.v))
       IN Ok(List([i \in 1..Len(sorted) |->
                     Map(<< <<"tag", Str(sorted[i][1])>>, <<"count", sorted[i][2]>> >>)]))

\* the pin getBlogMapPins makes of a record
PinOf(blog) ==
  LET coordinates == Prop(Get(blog, "location"), "coordinates")
  IN Map(<< <<"id", Get(blog, "slug")>>,
            <<"title", Get(blog, "title")>>,
            <<"lat", Prop(coordinates, "lat")>>,
            <<"lng", Prop(coordinates, "lng")>>,
            <<"description", Get(blog, "description")>>,
            <<"tags", Get(blog, "tags")>>,
            <<"category", Get(blog, "category")>>,
            <<"blogUrl", Str(<<"/", "blogs", "/">> \o Get(blog, "slug").v)>>,
            <<"date", Get(blog, "date")>>,
            <<"featured", Get(blog, "featured")>>,
            <<"featuredPhoto", Get(blog, "featuredPhoto")>> >>)

\* getBlogMapPins from the list getAllBlogMeta returned
BlogMapPins(blogs) ==
  IF blogs = Throw THEN Throw
  ELSE LET kept == SelectSeq(blogs.v.v, hasCoordinates)
       IN Ok(List([i \in 1..Len(kept) |-> PinOf(kept[i])]))

\* String.prototype.toLowerCase, symbol by symbol, on the symbols of the model
\* that have an upper-case letter
LowerSym(c) ==
  CASE c = "A" -> "a" [] c = "B" -> "b" [] c = "C" -> "c" [] c = "T" -> "t"
    [] c = "X" -> "x" [] c = "My" -> "my" [] c = "Trip" -> "trip"
    [] c = "Legacy" -> "legacy" [] c = "Body" -> "body" [] c = "Date" -> "date"
    [] c = "Untitled" -> "untitled"
    [] OTHER -> c
toLowerCase(s) == [i \in 1..Len(s) |-> LowerSym(s[i])]

\* String.prototype.includes
Includes(s, p) == \E i \in 1..(Len(s) + 1) : Has(s, i, p) \/ p = <<>>

\* x.toLowerCase().includes(searchTerm): a boolean, or Throw when x is no string
LowerIncludes(x, searchTerm) ==
  IF x.t # "str" THEN Throw ELSE Bool(Includes(toLowerCase(x.v), searchTerm))

RECURSIVE SomeTag(_, _)
\* blog.tags.some((tag) => tag.toLowerCase().includes(searchTerm))
SomeTag(tags, searchTerm) ==
  IF tags = <<>> THEN Bool(FALSE)
  ELSE IF LowerIncludes(tags[1], searchTerm) = Bool(FALSE) THEN SomeTag(Tail(tags), searchTerm)
  ELSE LowerIncludes(tags[1], searchTerm)

\* the predicate of the text search of searchBlogs: a boolean, or Throw
MatchesSearch(blog, searchTerm) ==
  LET inTitle == LowerIncludes(Get(blog, "title"), searchTerm)
      description == Get(blog, "description")
      inDescription == IF Truthy(description) THEN LowerIncludes(description, searchTerm)
                       ELSE Bool(FALSE)
      tags == Get(blog, "tags")
  IN IF inTitle # Bool(FALSE) THEN inTitle
     ELSE IF inDescription # Bool(FALSE) THEN inDescription
     ELSE IF ~Truthy(tags) THEN Bool(FALSE)
     ELSE IF tags.t # "list" THEN Throw
     ELSE SomeTag(tags.v, searchTerm)

\* the options searchBlogs gives getAllBlogMeta
SearchOptions(query) ==
  << <<"includeDrafts", OrElse(Get(query, "includeDrafts"), Bool(FALSE))>>,
     <<"filterBy", Map(<< <<"tags", Get(query, "tags")>>,
                          <<"category", Get(query, "category")>>,
                          <<"author", Get(query, "author")>>,
                          <<"featured", Get(query, "featured")>> >>)>>,
     <<"sortBy", OrElse(Get(query, "sortBy"), Str(<<"date">>))>>,
     <<"sortOrder", OrElse(Get(query, "sortOrder"), Str(<<"desc">>))>> >>

\* searchBlogs, were it to count the records of the page
Paginated_CountsPage(blogs, query, searchTerm) ==
  LET found == IF Truthy(Get(query, "search"))
                 THEN SelectSeq(blogs, LAMBDA b : MatchesSearch(b, searchTerm) = Bool(TRUE))
                 ELSE blogs
      offset == OrElse(Get(query, "offset"), Num(0)).v
      limit == OrElse(Get(query, "limit"), Num(Len(found))).v
      page == Slice(found, offset, offset + limit)
  IN Ok(Map(<< <<"blogs", List(page)>>,
               <<"totalCount", Num(Len(page))>>,
               <<"hasMore", Bool(offset + limit < Len(page))>>,
               <<"query", Map(query)>> >>))

\* the text search and the pagination of searchBlogs
Paginated(blogs, query, searchTerm) ==
  LET found == IF Truthy(Get(query, "search"))
                 THEN SelectSeq(blogs, LAMBDA b : MatchesSearch(b, searchTerm) = Bool(TRUE))
                 ELSE blogs
      totalCount == Len(found)
      offset == OrElse(Get(query, "offset"), Num(0)).v
      limit == OrElse(Get(query, "limit"), Num(totalCount)).v
  IN IF /\ Truthy(Get(query, "search"))
        /\ \E i \in 1..Len(blogs) : MatchesSearch(blogs[i], searchTerm) = Throw
       THEN Throw
     ELSE Ok(Map(<< <<"blogs", List(Slice(found, offset, offset + limit))>>,
                    <<"totalCount", Num(totalCount)>>,
                    <<"hasMore", Bool(offset + limit < totalCount)>>,
                    <<"query", Map(query)>> >>))

\* searchBlogs from the list getAllBlogMeta returned
SearchResult(blogs, query) ==
  IF blogs = Throw THEN Throw
  ELSE Paginated(blogs.v.v, query,
                 IF Truthy(Get(query, "search")) THEN toLowerCase(Get(query, "search").v)
                 ELSE <<>>)

RECURSIVE CountField(_, _, _)
\* blogs.forEach((blog) => { if (blog[field]) counts[blog[field]] = (counts[blog[field]] || 0) + 1 }),
\* the loop of getCategoriesWithCounts (field category) and of postsByAuthor
CountField(counts, blogs, field) ==
  IF blogs = <<>> THEN counts
  ELSE CountField(
         IF Truthy(Get(blogs[1], field))
           THEN CountOne(counts, JsString(Get(blogs[1], field)))
           ELSE counts,
         Tail(blogs), field)

\* getCategoriesWithCounts from the list getAllBlogMeta returned
CategoriesWithCounts(blogs) ==
  IF blogs = Throw THEN Throw
  ELSE LET sorted == SortByCount(CountField(<<>>, blogs.v.v, "category"))
       IN Ok(List([i \in 1..Len(sorted) |->
                     Map(<< <<"category", Str(sorted[i][1])>>, <<"count", sorted[i][2]>> >>)]))

RECURSIVE PostsByCategory(_, _)
\* categoriesWithCounts.forEach((cat) => { postsByCategory[cat.category] = cat.count })
PostsByCategory(postsByCategory, categoriesWithCounts) ==
  IF categoriesWithCounts = <<>> THEN postsByCategory
  ELSE PostsByCategory(Put(postsByCategory, Get(categoriesWithCounts[1].v, "category").v,
                           Get(categoriesWithCounts[1].v, "count")),
                       Tail(categoriesWithCounts))

\* the number of days getBlogStats looks back for recentPosts
RecentDays == 30

\* the record getBlogStats returns, from what its three queries returned and the
\* day it is called on
BlogStats(allBlogs, tagsWithCounts, categoriesWithCounts, now) ==
  IF allBlogs = Throw \/ tagsWithCounts = Throw \/ categoriesWithCounts = Throw THEN Throw
  ELSE
    LET blogs == allBlogs.v.v
        thirtyDaysAgo == now - RecentDays
        count(keep(_)) == Num(Len(SelectSeq(blogs, keep)))
        recent(blog) ==
          /\ Truthy(Get(blog, "date"))
          /\ DateTime(Get(blog, "date")) # NaN
          /\ DateTime(Get(blog, "date")).v >= thirtyDaysAgo
    IN Ok(Map(<< <<"totalPosts", Num(Len(blogs))>>,
                 <<"publishedPosts", count(LAMBDA b : ~Truthy(Get(b, "draft")))>>,
                 <<"draftPosts", count(LAMBDA b : Truthy(Get(b, "draft")))>>,
                 <<"featuredPosts", count(LAMBDA b : Truthy(Get(b, "featured")))>>,
                 <<"totalTags", Num(Len(tagsWithCounts.v.v))>>,
                 <<"totalCategories", Num(Len(categoriesWithCounts.v.v))>>,
                 <<"postsWithLocation", count(LAMBDA b : Truthy(Get(b, "location")))>>,
                 <<"postsByCategory",
                   Map(PostsByCategory(<<>>, categoriesWithCounts.v.v))>>,
                 <<"postsByAuthor", Map(CountField(<<>>, blogs, "author"))>>,
                 <<"recentPosts", count(recent)>> >>))

(***************************************************************************)
(* The documents the parser is run on                                      *)
(***************************************************************************)
\* the longest leading white space before a document's first symbol
MaxLead == 1
\* the longest text given as the value of tags
MaxTagLen == 3

OPEN == <<"-", "-", "-">>
CLOSE == <<"\n", "-", "-", "-">>

\* every text of at most n symbols over the alphabet
TextsOver(alphabet, n) == UNION {[1..k -> alphabet] : k \in 0..n}

\* metadata lines that declare tags
TagsLines ==
  { <<"tags", ":", " ", "a", ",", " ", "b", ",", "c">>,
    <<"tags", ":", " ", "[", "a", ",", " ", "b", "]">>,
    <<"tags", ":", " ", "[", "'", " ", "a", " ", "'", ",", "b", "]">>,
    <<"tags", ":", " ", "[", "1", ",", " ", "a", "]">>,
    <<"tags", ":", " ", "[", "]">>,
    <<"tags", ":", "\n", " ", " ", "-", " ", "a", "\n", " ", " ", "-", " ", "b">>,
    <<"tags", ":", "\n", " ", " ", "k", ":", " ", "a">>,
    <<"tags", ":", " ", "5">>,
    <<"tags", ":", " ", "0">>,
    <<"tags", ":">>,
    <<"tags", ":", " ", "true">>,
    <<"tags", ":", " ", "false">>,
    <<"tags", ":", " ", "2024", "-", "06", "-", "01">> }

\* metadata lines that declare draft, featured, date, title or a custom key
FieldLines ==
  { <<k, ":">> \o x :
      k \in {"draft", "featured"},
      x \in { <<" ", "true">>, <<" ", "false">>, <<" ", "yes">>, <<" ", "0">>,
              <<" ", "1">>, <<>>, <<" ", "'", "'">>, <<" ", "'", "false", "'">>,
              <<" ", "[", "a", "]">> } }
  \cup
  { <<"date", ":", " ", "'", "2024", "-", "06", "-", "01", "'">>,
    <<"date", ":", " ", "2024", "-", "06", "-", "02">>,
    <<"date", ":", " ", "5">>,
    <<"date", ":", " ", "0">>,
    <<"date", ":", " ", "[", "1", ",", "2", "]">>,
    <<"title", ":", " ", "X">>,
    <<"title", ":", " ", "'", "true", "'">>,
    <<"title", ":", " ", "5">>,
    <<"rating", ":", " ", "4">>,
    <<"seen", ":", " ", "2024", "-", "06", "-", "03">>,
    <<"location", ":", "\n", " ", " ", "name", ":", " ", "X", "\n",
      " ", " ", "coordinates", ":", "\n",
      " ", " ", " ", " ", "lat", ":", " ", "-", "1", "\n",
      " ", " ", " ", " ", "lng", ":", " ", "2">> }

\* metadata blocks js-yaml raises on
BadBlocks ==
  { <<"invalid", ":", " ", "yaml", ":", " ", "content", ":", " ", "here">>,
    <<"tags", ":", " ", "[", "a", ",", " ", "b">>,
    <<"title", ":", " ", "'", "X">>,
    <<"title", ":", " ", "X", "\n", "junk">>,
    <<"draft", ":", " ", "true", "\n", "draft", ":", " ", "false">>,
    <<"title", ":", " ", "X", "\n", " ", "tags", ":", " ", "a">> }

\* metadata blocks that are no mapping: empty, a scalar, a sequence
OddBlocks == { <<>>, <<"x">>, <<"0">>, <<"-", " ", "a", "\n", "-", " ", "b">> }

Blocks ==
  TagsLines \cup FieldLines \cup BadBlocks \cup OddBlocks
  \cup {a \o <<"\n">> \o b : a \in TagsLines, b \in FieldLines}
  \cup {b \o <<"\n">> \o a : a \in TagsLines, b \in FieldLines}

\* documents with an opening delimiter and a closing one
BlockDocs ==
  { lead \o OPEN \o <<"\n">> \o b \o CLOSE \o rest :
      lead \in TextsOver({" ", "\n"}, MaxLead),
      b \in Blocks,
      rest \in { <<>>, <<"\n", "#", " ", "Body">>, <<"\n", "\n", "text", " ">> } }
  \cup
  { OPEN \o <<"\n", "tags", ":", " ">> \o q \o x \o q \o CLOSE \o <<"\n", "text">> :
      q \in {<<"'">>},
      x \in TextsOver({"a", "b", ",", " "}, MaxTagLen) }
  \cup
  { OPEN \o <<"\n", "tags", ":", " ">> \o x \o CLOSE \o <<"\n", "text">> :
      x \in {y \in TextsOver({"a", "b", ",", " "}, MaxTagLen) :
               y # <<>> /\ Trim(y) = y /\ y[1] # ","} }
  \cup { OPEN \o CLOSE, OPEN \o CLOSE \o <<"\n", "text">> }

\* documents with no metadata block: no opening delimiter, or no closing one
PlainDocs ==
  { lead \o x \o rest :
      lead \in TextsOver({" ", "\n"}, MaxLead),
      x \in { <<>>, <<"#", " ", "Legacy", "\n", "\n", "*", "Date", ":", " ",
                "2024", "-", "06", "-", "02", "*", "\n", "\n", "text">>,
              <<"-", "-">>, <<"-", "-", " ", "-">>, <<"text">>,
              <<"text", "\n", "-", "-", "-", "\n", "draft", ":", " ", "true",
                "\n", "-", "-", "-">>,
              OPEN, OPEN \o <<"\n", "draft", ":", " ", "true">>,
              OPEN \o <<"\n", "draft", ":", " ", "true", "\n", "-", "-">>,
              OPEN \o <<" ", "draft", ":", " ", "true", " ", "-", "-", "-">> },
      rest \in { <<>>, <<" ">>, <<"\n">> } }

(***************************************************************************)
(* The parser run on one document: parse, then create from the fields it   *)
(* returned, then parse of the block created.                              *)
(***************************************************************************)
VARIABLES rawContent, step, parsed, block, reparsed

\* the state of the aggregator (below)
VARIABLES blogFiles, call, pc, idx, blogMetaList, failed, outcome

\* the state of the pin store and of the useBlogPins hook (below)
VARIABLES auth, store, pins, loading, mounted, inflight

\* the state of AlertProvider (below)
VARIABLES alert, timers, closed

\* the state of the route selection of the legacy App (below)
VARIABLES travels, startIdx, endIdx

parserVars == <<rawContent, step, parsed, block, reparsed>>
processorVars == <<blogFiles, call, pc, idx, blogMetaList, failed, outcome>>
hookVars == <<auth, store, pins, loading, mounted, inflight>>
alertVars == <<alert, timers, closed>>
routeVars == <<travels, startIdx, endIdx>>
uiVars == <<hookVars, alertVars, routeVars>>
vars == <<parserVars, processorVars, uiVars>>

\* the alert of AlertProvider before any is shown, and after hideAlert
NoAlert ==
  [message |-> Str(<<>>), type |-> Str(<<"info">>), isVisible |-> FALSE,
   title |-> Undefined, duration |-> Undefined, onClose |-> Undefined]

\* startIdx and endIdx when they are null
NoIdx == -1

\* the pin store is empty and the hook is not mounted
HookIdle ==
  /\ auth = "unresolved"
  /\ store = <<>>
  /\ pins = <<>>
  /\ loading = FALSE
  /\ mounted = FALSE
  /\ inflight = <<>>

\* no alert was shown
AlertIdle ==
  /\ alert = NoAlert
  /\ timers = {}
  /\ closed = <<>>

\* the legacy App is not mounted
RouteIdle ==
  /\ travels = <<>>
  /\ startIdx = NoIdx
  /\ endIdx = NoIdx

\* nothing of the user interface is mounted
UiIdle == HookIdle /\ AlertIdle /\ RouteIdle

\* returned holds what the queries getBlogStats has awaited returned, with the
\* files that failed in each
NoCall ==
  [op |-> "none", opts |-> <<>>, limit |-> Undefined, slug |-> <<>>,
   includeDrafts |-> Undefined, query |-> <<>>, now |-> 0, returned |-> <<>>]

ProcessorIdle ==
  /\ call = NoCall
  /\ pc = "idle"
  /\ idx = 0
  /\ blogMetaList = <<>>
  /\ failed = {}
  /\ outcome = Undefined

ParseInit ==
  /\ rawContent \in {Str(x) : x \in BlockDocs \cup PlainDocs}
  /\ step = "input"
  /\ parsed = Undefined
  /\ block = Undefined
  /\ reparsed = Undefined
  /\ UiIdle
  /\ blogFiles = <<>>
  /\ ProcessorIdle

Parse ==
  /\ step = "input"
  /\ parsed' = parse(rawContent)
  /\ step' = "parsed"
  /\ UNCHANGED <<rawContent, block, reparsed, processorVars, uiVars>>

Create ==
  /\ step = "parsed"
  /\ parsed.t = "ok"
  /\ block' = Str(create(parsed.v.frontmatter))
  /\ step' = "created"
  /\ UNCHANGED <<rawContent, parsed, reparsed, processorVars, uiVars>>

Reparse ==
  /\ step = "created"
  /\ reparsed' = parse(block)
  /\ step' = "reparsed"
  /\ UNCHANGED <<rawContent, parsed, block, processorVars, uiVars>>

ParseNext == Parse \/ Create \/ Reparse

ParseSpec == ParseInit /\ [][ParseNext]_vars

(***************************************************************************)
(* The aggregator: one query of BlogProcessor on the collection            *)
(* blogFiles.  Each import is awaited, so a query is a sequence of steps,  *)
(* one per import, each resolving or being rejected.                       *)
(***************************************************************************)
\* the most files in the collection
MaxFiles == 2
\* the largest limit given to getFeaturedBlogs
MaxLimit == 2

\* the file names of the collection, in the order of its keys
FileNames == << <<"a">>, <<"b">>, <<"my", "-", "trip">>, <<"c">> >>
PathOf(i) == <<"/", "blogs", "/">> \o FileNames[i] \o <<".", "md">>

\* what the files of the collection hold
BlogContents ==
  { Str(OPEN \o <<"\n", "featured", ":", " ", "true", "\n", "date", ":", " ", "'",
          "2024", "-", "06", "-", "01", "'">> \o CLOSE \o <<"\n", "#", " ", "T">>),
    Str(OPEN \o <<"\n", "featured", ":", " ", "true", "\n", "date", ":", " ",
          "2024", "-", "06", "-", "02">> \o CLOSE \o <<"\n", "text">>),
    Str(OPEN \o <<"\n", "draft", ":", " ", "true", "\n", "featured", ":", " ", "true",
          "\n", "date", ":", " ", "'", "2024", "-", "06", "-", "03", "'">>
          \o CLOSE \o <<"\n", "text">>),
    Str(OPEN \o <<"\n", "draft", ":", " ", "yes">> \o CLOSE \o <<"\n", "text">>),
    Str(<<"#", " ", "Legacy", "\n", "\n", "*", "Date", ":", " ",
          "2024", "-", "06", "-", "02", "*", "\n", "\n", "text">>),
    Str(OPEN \o <<"\n", "draft", ":", " ", "true", "\n", "invalid", ":", " ", "yaml",
          ":", " ", "here">> \o CLOSE \o <<"\n", "text">>),
    Str(OPEN \o <<"\n", "featured", ":", " ", "yes">> \o CLOSE \o <<"\n", "text">>),
    \* a module that holds no text: the type of blogFiles is a cast
    Undefined }

\* the options the callers of getAllBlogMeta give
CallerOptions ==
  { <<>>,
    << <<"includeDrafts", Bool(FALSE)>> >>,
    << <<"includeDrafts", Bool(TRUE)>> >>,
    << <<"includeDrafts", Bool(TRUE)>>, <<"sortOrder", Str(<<"asc">>)>>,
       <<"requiredFields", List(<<Str(<<"date">>)>>)>> >>,
    << <<"filterBy", Map(<< <<"featured", Bool(FALSE)>> >>)>>,
       <<"sortBy", Str(<<"featured">>)>> >> }

\* the slugs asked of getBlogBySlug: those of the files and one of no file
Slugs == {generateSlug(PathOf(i)) : i \in 1..MaxFiles} \cup {<<"none">>}

Init ==
  /\ \E n \in 0..MaxFiles :
       blogFiles \in {[i \in 1..n |-> <<PathOf(i), c[i]>>] : c \in [1..n -> BlogContents]}
  /\ ProcessorIdle
  /\ rawContent = Undefined
  /\ step = "off"
  /\ parsed = Undefined
  /\ block = Undefined
  /\ reparsed = Undefined
  /\ UiIdle

\* getAllBlogMeta(options) up to its loop
GetAllBlogMeta(options) ==
  /\ pc = "idle"
  /\ call' = [NoCall EXCEPT !.op = "getAllBlogMeta",
                            !.opts = Assign(DEFAULT_BLOG_PROCESSING_OPTIONS, options)]
  /\ pc' = "loop"
  /\ idx' = 1
  /\ UNCHANGED <<blogFiles, blogMetaList, failed, outcome, parserVars, uiVars>>

\* getFeaturedBlogs(limit) up to the loop of the getAllBlogMeta it calls
GetFeaturedBlogs(limit) ==
  /\ pc = "idle"
  /\ call' = [NoCall EXCEPT
                !.op = "getFeaturedBlogs",
                !.limit = limit,
                !.opts = Assign(DEFAULT_BLOG_PROCESSING_OPTIONS,
                                << <<"includeDrafts", Bool(FALSE)>>,
                                   <<"filterBy", Map(<< <<"featured", Bool(TRUE)>> >>)>>,
                                   <<"sortBy", Str(<<"date">>)>>,
                                   <<"sortOrder", Str(<<"desc">>)>> >>)]
  /\ pc' = "loop"
  /\ idx' = 1
  /\ UNCHANGED <<blogFiles, blogMetaList, failed, outcome, parserVars, uiVars>>

\* one turn of the loop: the import resolves
ImportResolves ==
  /\ pc = "loop"
  /\ idx <= Len(blogFiles)
  /\ blogMetaList' = ProcessFile(call.opts, blogMetaList, blogFiles[idx][2], blogFiles[idx][1])
  /\ failed' = IF extractMeta(blogFiles[idx][2], blogFiles[idx][1]) = Throw
                 THEN failed \cup {idx} ELSE failed
  /\ idx' = idx + 1
  /\ UNCHANGED <<blogFiles, call, pc, outcome, parserVars, uiVars>>

\* one turn of the loop: the import is rejected
ImportRejects ==
  /\ pc = "loop"
  /\ idx <= Len(blogFiles)
  /\ blogMetaList' = ProcessFile(call.opts, blogMetaList, Throw, blogFiles[idx][1])
  /\ failed' = failed \cup {idx}
  /\ idx' = idx + 1
  /\ UNCHANGED <<blogFiles, call, pc, outcome, parserVars, uiVars>>

\* getAllBlogMeta, were it to return the list as its loop collected it
AllBlogMeta_Unsorted(opts, list) == withTryCatch(Ok(List(list)))

\* what getAllBlogMeta returns from the list its loop collected
AllBlogMeta(opts, list) ==
  withTryCatch(Ok(List(sortBlogs(list, Get(opts, "sortBy"), Get(opts, "sortOrder")))))

\* limit ? blogs.slice(0, limit) : blogs
Limited(blogs, limit) ==
  IF blogs = Throw THEN Throw
  ELSE IF Truthy(limit) THEN Ok(List(Slice(blogs.v.v, 0, limit.v)))
  ELSE blogs

\* what the query of the call returns from the list the loop collected
Finish(c, list) ==
  IF c.op = "getFeaturedBlogs"
    THEN withTryCatch(Limited(AllBlogMeta(c.opts, list), c.limit))
  ELSE IF c.op = "getTagsWithCounts"
    THEN withTryCatch(TagsWithCounts(AllBlogMeta(c.opts, list)))
  ELSE IF c.op = "getBlogMapPins"
    THEN withTryCatch(BlogMapPins(AllBlogMeta(c.opts, list)))
  ELSE IF c.op = "searchBlogs"
    THEN withTryCatch(SearchResult(AllBlogMeta(c.opts, list), c.query))
  ELSE IF c.op = "getBlogStats"
    THEN withTryCatch(BlogStats(c.returned[1].blogs,
                                withTryCatch(TagsWithCounts(c.returned[2].blogs)),
                                withTryCatch(CategoriesWithCounts(AllBlogMeta(c.opts, list))),
                                c.now))
    ELSE AllBlogMeta(c.opts, list)

\* after the loop: the sort, and for getFeaturedBlogs the cut to limit
Return ==
  /\ pc = "loop"
  /\ idx > Len(blogFiles)
  /\ call.op = "getBlogStats" => Len(call.returned) = 2
  /\ outcome' = Finish(call, blogMetaList)
  /\ pc' = "done"
  /\ UNCHANGED <<blogFiles, call, idx, blogMetaList, failed, parserVars, uiVars>>

\* getBlogBySlug(slug, includeDrafts) up to its import; null when no file has the slug
GetBlogBySlug(slug, includeDrafts) ==
  /\ pc = "idle"
  /\ call' = [NoCall EXCEPT !.op = "getBlogBySlug", !.slug = slug,
                            !.includeDrafts = Bool(includeDrafts)]
  /\ LET found == {i \in 1..Len(blogFiles) : generateSlug(blogFiles[i][1]) = slug}
     IN IF found = {}
          THEN /\ outcome' = withTryCatch(Ok(Null))
               /\ pc' = "done"
               /\ idx' = idx
          ELSE /\ idx' = CHOOSE i \in found : \A j \in found : i <= j
               /\ pc' = "import"
               /\ outcome' = outcome
  /\ UNCHANGED <<blogFiles, blogMetaList, failed, parserVars, uiVars>>

\* what getBlogBySlug returns from the record extracted and the result of parse
BlogPostFrom(r, p, includeDrafts) ==
  IF r = Throw THEN Throw
  ELSE IF Truthy(Get(r.v, "draft")) /\ ~Truthy(includeDrafts) THEN Ok(Null)
  ELSE Ok(Map(Assign(r.v, << <<"content", Str(p.v.content)>> >>)))

\* what getBlogBySlug makes of the content imported
BlogPostOf(content, filePath, includeDrafts) ==
  BlogPostFrom(extractMeta(content, filePath), parse(content), includeDrafts)

\* the import of getBlogBySlug resolves
SlugImportResolves ==
  /\ pc = "import"
  /\ outcome' = withTryCatch(BlogPostOf(blogFiles[idx][2], blogFiles[idx][1],
                                        call.includeDrafts))
  /\ failed' = IF extractMeta(blogFiles[idx][2], blogFiles[idx][1]) = Throw
                 THEN failed \cup {idx} ELSE failed
  /\ pc' = "done"
  /\ UNCHANGED <<blogFiles, call, idx, blogMetaList, parserVars, uiVars>>

\* the import of getBlogBySlug is rejected: nothing in getBlogBySlug catches it
SlugImportRejects ==
  /\ pc = "import"
  /\ outcome' = withTryCatch(Throw)
  /\ failed' = failed \cup {idx}
  /\ pc' = "done"
  /\ UNCHANGED <<blogFiles, call, idx, blogMetaList, parserVars, uiVars>>

Next ==
  \/ \E options \in CallerOptions : GetAllBlogMeta(options)
  \/ \E limit \in {Undefined} \cup {Num(n) : n \in 0..MaxLimit} : GetFeaturedBlogs(limit)
  \/ ImportResolves
  \/ ImportRejects
  \/ Return
  \/ \E slug \in Slugs, includeDrafts \in BOOLEAN : GetBlogBySlug(slug, includeDrafts)
  \/ SlugImportResolves
  \/ SlugImportRejects

Spec == Init /\ [][Next]_vars

(***************************************************************************)
(* The queries with filters, and those built on getAllBlogMeta, on a       *)
(* collection of documents with tags, dates and locations.                 *)
(***************************************************************************)
\* a document with a metadata block
Doc(meta, body) == OPEN \o <<"\n">> \o meta \o CLOSE \o <<"\n">> \o body

\* the metadata lines of a location with coordinates
Coordinates(lat, lng) ==
  <<"location", ":", "\n", " ", " ", "name", ":", " ", "X", "\n",
    " ", " ", "coordinates", ":", "\n",
    " ", " ", " ", " ", "lat", ":", " ">> \o lat \o
  <<"\n", " ", " ", " ", " ", "lng", ":", " ">> \o lng

QueryContents ==
  { Str(Doc(<<"title", ":", " ", "A", "\n", "tags", ":", " ", "[", "a", ",", " ", "b", "]", "\n",
              "category", ":", " ", "c", "\n",
              "date", ":", " ", "'", "2024", "-", "06", "-", "01", "'", "\n">>
            \o Coordinates(<<"-", "1">>, <<"2">>), <<"text">>)),
    Str(Doc(<<"tags", ":", " ", "[", "a", "]", "\n",
              "date", ":", " ", "2024", "-", "06", "-", "02", "\n">>
            \o Coordinates(<<"0">>, <<"2">>), <<"text">>)),
    Str(Doc(<<"title", ":", " ", "B", "\n",
              "tags", ":", " ", "[", "b", ",", " ", "constructor", "]", "\n",
              "location", ":", "\n", " ", " ", "name", ":", " ", "X">>, <<"text">>)),
    Str(Doc(<<"draft", ":", " ", "true", "\n", "tags", ":", " ", "[", "a", "]", "\n",
              "date", ":", " ", "'", "2024", "-", "06", "-", "03", "'", "\n">>
            \o Coordinates(<<"1">>, <<"2">>), <<"text">>)),
    Str(Doc(<<"title", ":", " ", "B", "\n", "featured", ":", " ", "true", "\n",
              "category", ":", " ", "c", "\n",
              "date", ":", " ", "'", "2024", "-", "06", "-", "03", "'", "\n",
              "location", ":", "\n", " ", " ", "coordinates", ":", "\n",
              " ", " ", " ", " ", "lat", ":", " ", "1">>, <<"text">>)),
    Str(<<"text">>) }

QueryInit ==
  /\ \E n \in 0..MaxFiles :
       blogFiles \in {[i \in 1..n |-> <<PathOf(i), c[i]>>] : c \in [1..n -> QueryContents]}
  /\ ProcessorIdle
  /\ rawContent = Undefined
  /\ step = "off"
  /\ parsed = Undefined
  /\ block = Undefined
  /\ reparsed = Undefined
  /\ UiIdle

Day(d) == Str(<<"2024", "-", "06", "-", d>>)

\* the filters given to getAllBlogMeta
Filters ==
  { << <<"tags", List(<<Str(<<"a">>)>>)>> >>,
    << <<"tags", List(<<Str(<<"a">>), Str(<<"z">>)>>)>>, <<"category", Str(<<"c">>)>> >>,
    << <<"tags", List(<<Str(<<"b">>)>>)>>, <<"featured", Bool(FALSE)>> >>,
    << <<"tags", List(<<>>)>> >>,
    << <<"dateRange", Map(<< <<"start", Day("02")>> >>)>> >>,
    << <<"dateRange", Map(<< <<"end", Day("02")>> >>)>> >>,
    << <<"dateRange", Map(<< <<"start", Day("02")>>, <<"end", Day("03")>> >>)>> >>,
    << <<"dateRange", Map(<<>>)>> >>,
    << <<"hasLocation", Bool(TRUE)>> >>,
    << <<"hasLocation", Bool(FALSE)>> >> }

FilterOptions ==
  { << <<"filterBy", Map(f)>> >> : f \in Filters }
  \cup { <<>>, << <<"includeDrafts", Bool(TRUE)>> >>,
         << <<"includeDrafts", Bool(TRUE)>>,
            <<"filterBy", Map(<< <<"tags", List(<<Str(<<"a">>)>>)>> >>)>> >> }

\* the largest offset given to searchBlogs
MaxOffset == 2

\* the queries given to searchBlogs
Queries ==
  { q \o page :
      q \in { <<>>,
              << <<"search", Str(<<"B">>)>> >>,
              << <<"search", Str(<<"a">>)>>, <<"includeDrafts", Bool(TRUE)>> >>,
              << <<"tags", List(<<Str(<<"a">>)>>)>>, <<"sortOrder", Str(<<"asc">>)>> >> },
      page \in { <<>>, << <<"limit", Num(1)>> >>, << <<"offset", Num(1)>> >> }
               \cup { << <<"offset", Num(o)>>, <<"limit", Num(l)>> >> :
                        o \in 0..MaxOffset, l \in 0..1 } }

\* getTagsWithCounts(includeDrafts) up to the loop of the getAllBlogMeta it calls
GetTagsWithCounts(includeDrafts) ==
  /\ pc = "idle"
  /\ call' = [NoCall EXCEPT
                !.op = "getTagsWithCounts",
                !.includeDrafts = Bool(includeDrafts),
                !.opts = Assign(DEFAULT_BLOG_PROCESSING_OPTIONS,
                                << <<"includeDrafts", Bool(includeDrafts)>> >>)]
  /\ pc' = "loop"
  /\ idx' = 1
  /\ UNCHANGED <<blogFiles, blogMetaList, failed, outcome, parserVars, uiVars>>

\* getBlogMapPins up to the loop of the getAllBlogMeta it calls
GetBlogMapPins ==
  /\ pc = "idle"
  /\ call' = [NoCall EXCEPT
                !.op = "getBlogMapPins",
                !.opts = Assign(DEFAULT_BLOG_PROCESSING_OPTIONS,
                                << <<"includeDrafts", Bool(FALSE)>> >>)]
  /\ pc' = "loop"
  /\ idx' = 1
  /\ UNCHANGED <<blogFiles, blogMetaList, failed, outcome, parserVars, uiVars>>

\* searchBlogs(query) up to the loop of the getAllBlogMeta it calls
SearchBlogs(query) ==
  /\ pc = "idle"
  /\ call' = [NoCall EXCEPT
                !.op = "searchBlogs",
                !.query = query,
                !.opts = Assign(DEFAULT_BLOG_PROCESSING_OPTIONS, SearchOptions(query))]
  /\ pc' = "loop"
  /\ idx' = 1
  /\ UNCHANGED <<blogFiles, blogMetaList, failed, outcome, parserVars, uiVars>>

QueryNext ==
  \/ \E options \in FilterOptions : GetAllBlogMeta(options)
  \/ \E includeDrafts \in BOOLEAN : GetTagsWithCounts(includeDrafts)
  \/ GetBlogMapPins
  \/ \E query \in Queries : SearchBlogs(query)
  \/ ImportResolves
  \/ ImportRejects
  \/ Return

QuerySpec == QueryInit /\ [][QueryNext]_vars

(***************************************************************************)
(* getBlogStats: three queries one after the other, getAllBlogMeta,        *)
(* getTagsWithCounts and getCategoriesWithCounts, each with its own loop   *)
(* over the collection.                                                    *)
(***************************************************************************)
\* the days getBlogStats is called on, in days of the month of the documents' dates
Today == {32, 34}

\* what the files of the collection hold: a record with coordinates, one with a
\* location that has only a name, a draft with coordinates, a document with no
\* metadata
StatsContents ==
  { Str(Doc(<<"title", ":", " ", "A", "\n", "tags", ":", " ", "[", "a", ",", " ", "b", "]", "\n",
              "category", ":", " ", "c", "\n", "author", ":", " ", "X", "\n",
              "date", ":", " ", "'", "2024", "-", "06", "-", "01", "'", "\n">>
            \o Coordinates(<<"-", "1">>, <<"2">>), <<"text">>)),
    Str(Doc(<<"title", ":", " ", "B", "\n", "tags", ":", " ", "[", "b", "]", "\n",
              "featured", ":", " ", "true", "\n",
              "location", ":", "\n", " ", " ", "name", ":", " ", "X">>, <<"text">>)),
    Str(Doc(<<"draft", ":", " ", "true", "\n", "tags", ":", " ", "[", "a", "]", "\n",
              "date", ":", " ", "'", "2024", "-", "06", "-", "03", "'", "\n">>
            \o Coordinates(<<"1">>, <<"2">>), <<"text">>)),
    Str(<<"text">>) }

StatsInit ==
  /\ \E n \in 0..MaxFiles :
       blogFiles \in {[i \in 1..n |-> <<PathOf(i), c[i]>>] : c \in [1..n -> StatsContents]}
  /\ ProcessorIdle
  /\ rawContent = Undefined
  /\ step = "off"
  /\ parsed = Undefined
  /\ block = Undefined
  /\ reparsed = Undefined
  /\ UiIdle

\* getBlogStats, were its queries to leave the drafts out
GetBlogStats_Published(now) ==
  /\ pc = "idle"
  /\ call' = [NoCall EXCEPT !.op = "getBlogStats", !.now = now,
                            !.opts = DEFAULT_BLOG_PROCESSING_OPTIONS]
  /\ pc' = "loop"
  /\ idx' = 1
  /\ UNCHANGED <<blogFiles, blogMetaList, failed, outcome, parserVars, uiVars>>

\* getBlogStats up to the loop of its first query, getAllBlogMeta({includeDrafts: true})
GetBlogStats(now) ==
  /\ pc = "idle"
  /\ call' = [NoCall EXCEPT
                !.op = "getBlogStats",
                !.now = now,
                !.opts = Assign(DEFAULT_BLOG_PROCESSING_OPTIONS,
                                << <<"includeDrafts", Bool(TRUE)>> >>)]
  /\ pc' = "loop"
  /\ idx' = 1
  /\ UNCHANGED <<blogFiles, blogMetaList, failed, outcome, parserVars, uiVars>>

\* a query of getBlogStats returns and the next one, getTagsWithCounts(true) or
\* getCategoriesWithCounts(true), starts its loop
NextQuery ==
  /\ pc = "loop"
  /\ idx > Len(blogFiles)
  /\ call.op = "getBlogStats"
  /\ Len(call.returned) < 2
  /\ call' = [call EXCEPT
                !.returned = Append(@, [blogs |-> AllBlogMeta(call.opts, blogMetaList),
                                        failed |-> failed])]
  /\ idx' = 1
  /\ blogMetaList' = <<>>
  /\ failed' = {}
  /\ UNCHANGED <<blogFiles, pc, outcome, parserVars, uiVars>>

StatsNext ==
  \/ \E now \in Today : GetBlogStats(now)
  \/ ImportResolves
  \/ ImportRejects
  \/ NextQuery
  \/ Return

StatsSpec == StatsInit /\ [][StatsNext]_vars

(***************************************************************************)
(* The extractor run on one document under one file path.                  *)
(***************************************************************************)
\* the file paths given to extractMeta
FilePaths ==
  { <<"/", "blogs", "/", "my", "-", "trip", ".", "md">>,
    <<"/", "blogs", "/", "a", ".", "md">>,
    <<"a", "-", "b", ".", "md">>,
    <<"/", "blogs", "/", "a">>,
    <<"/", "blogs", "/", ".", "md">>,
    <<"/", "blogs", "/", "-", ".", "md">>,
    <<"/", "blogs", "/">>,
    <<>> }

\* the metadata blocks of the documents given to extractMeta
ExtractBlocks ==
  { <<"title", ":", " ", "X">>,
    <<"title", ":", " ", "'", "'">>,
    <<"title", ":", " ", "0">>,
    <<"title", ":", " ", "5">>,
    <<"rating", ":", " ", "4">>,
    <<"slug", ":", " ", "X", "\n", "filePath", ":", " ", "X", "\n",
      "hasFrontmatter", ":", " ", "false", "\n", "rating", ":", " ", "4">>,
    <<"constructor", ":", " ", "X", "\n", "rating", ":", " ", "4">>,
    <<"title", ":", " ", "X", "\n", "junk">> }

\* what follows the metadata block, or makes a document without one
ExtractBodies ==
  { <<>>, <<"text">>, <<"#", " ", "Body">>, <<"text", "\n", "#", " ", "Body", " ">>,
    <<"#", " ", " ">>, <<"#", "Body">> }

ExtractDocs ==
  {Str(Doc(b, body)) : b \in ExtractBlocks, body \in ExtractBodies}
  \cup {Str(body) : body \in ExtractBodies}

ExtractInit ==
  /\ blogFiles \in {<< <<path, content>> >> : path \in FilePaths, content \in ExtractDocs}
  /\ ProcessorIdle
  /\ rawContent = Undefined
  /\ step = "off"
  /\ parsed = Undefined
  /\ block = Undefined
  /\ reparsed = Undefined
  /\ UiIdle

\* extractMeta(content, filePath) on the document and the path of the file
ExtractMeta ==
  /\ pc = "idle"
  /\ call' = [NoCall EXCEPT !.op = "extractMeta"]
  /\ outcome' = extractMeta(blogFiles[1][2], blogFiles[1][1])
  /\ pc' = "done"
  /\ UNCHANGED <<blogFiles, idx, blogMetaList, failed, parserVars, uiVars>>

ExtractNext == ExtractMeta

ExtractSpec == ExtractInit /\ [][ExtractNext]_vars

(***************************************************************************)
(* Two queries on the default BlogProcessor at once.  A query gives way to *)
(* the other at each await of an import; the variables of the aggregator   *)
(* hold one value per call.                                                *)
(***************************************************************************)
Calls == {1, 2}

\* what the files of the collection hold
ConcContents ==
  { Str(OPEN \o <<"\n", "featured", ":", " ", "true", "\n", "date", ":", " ", "'",
          "2024", "-", "06", "-", "01", "'">> \o CLOSE \o <<"\n", "#", " ", "T">>),
    Str(OPEN \o <<"\n", "draft", ":", " ", "true", "\n", "featured", ":", " ", "true",
          "\n", "date", ":", " ", "'", "2024", "-", "06", "-", "03", "'">>
          \o CLOSE \o <<"\n", "text">>),
    Str(<<"#", " ", "Legacy", "\n", "\n", "*", "Date", ":", " ",
          "2024", "-", "06", "-", "02", "*", "\n", "\n", "text">>) }

\* the queries called: getAllBlogMeta(), getAllBlogMeta({includeDrafts: true,
\* sortOrder: 'asc'}) and getFeaturedBlogs(1)
ConcQueries ==
  { [NoCall EXCEPT !.op = "getAllBlogMeta", !.opts = DEFAULT_BLOG_PROCESSING_OPTIONS],
    [NoCall EXCEPT !.op = "getAllBlogMeta",
                   !.opts = Assign(DEFAULT_BLOG_PROCESSING_OPTIONS,
                                   << <<"includeDrafts", Bool(TRUE)>>,
                                      <<"sortOrder", Str(<<"asc">>)>> >>)],
    [NoCall EXCEPT !.op = "getFeaturedBlogs", !.limit = Num(1),
                   !.opts = Assign(DEFAULT_BLOG_PROCESSING_OPTIONS,
                                   << <<"includeDrafts", Bool(FALSE)>>,
                                      <<"filterBy", Map(<< <<"featured", Bool(TRUE)>> >>)>>,
                                      <<"sortBy", Str(<<"date">>)>>,
                                      <<"sortOrder", Str(<<"desc">>)>> >>)] }

ConcInit ==
  /\ \E n \in 0..MaxFiles :
       blogFiles \in {[i \in 1..n |-> <<PathOf(i), c[i]>>] : c \in [1..n -> ConcContents]}
  /\ call = [p \in Calls |-> NoCall]
  /\ pc = [p \in Calls |-> "idle"]
  /\ idx = [p \in Calls |-> 0]
  /\ blogMetaList = [p \in Calls |-> <<>>]
  /\ failed = [p \in Calls |-> {}]
  /\ outcome = [p \in Calls |-> Undefined]
  /\ rawContent = Undefined
  /\ step = "off"
  /\ parsed = Undefined
  /\ block = Undefined
  /\ reparsed = Undefined
  /\ UiIdle

\* the list of a call, were blogMetaList a field of the processor
ListOf_Shared(p) == 1

\* the list a call collects into: const blogMetaList = [] of its own activation
ListOf(p) == p

\* call p starts the query c, up to the first import of its loop
ConcQuery(p, c) ==
  /\ pc[p] = "idle"
  /\ call' = [call EXCEPT ![p] = c]
  /\ pc' = [pc EXCEPT ![p] = "loop"]
  /\ idx' = [idx EXCEPT ![p] = 1]
  /\ blogMetaList' = [blogMetaList EXCEPT ![ListOf(p)] = <<>>]
  /\ UNCHANGED <<blogFiles, failed, outcome, parserVars, uiVars>>

\* one turn of the loop of call p: the import resolves
ConcImportResolves(p) ==
  /\ pc[p] = "loop"
  /\ idx[p] <= Len(blogFiles)
  /\ blogMetaList' =
       [blogMetaList EXCEPT ![ListOf(p)] =
          ProcessFile(call[p].opts, @, blogFiles[idx[p]][2], blogFiles[idx[p]][1])]
  /\ failed' = [failed EXCEPT ![p] =
                  IF extractMeta(blogFiles[idx[p]][2], blogFiles[idx[p]][1]) = Throw
                    THEN @ \cup {idx[p]} ELSE @]
  /\ idx' = [idx EXCEPT ![p] = @ + 1]
  /\ UNCHANGED <<blogFiles, call, pc, outcome, parserVars, uiVars>>

\* one turn of the loop of call p: the import is rejected
ConcImportRejects(p) ==
  /\ pc[p] = "loop"
  /\ idx[p] <= Len(blogFiles)
  /\ blogMetaList' =
       [blogMetaList EXCEPT ![ListOf(p)] =
          ProcessFile(call[p].opts, @, Throw, blogFiles[idx[p]][1])]
  /\ failed' = [failed EXCEPT ![p] = @ \cup {idx[p]}]
  /\ idx' = [idx EXCEPT ![p] = @ + 1]
  /\ UNCHANGED <<blogFiles, call, pc, outcome, parserVars, uiVars>>

\* call p after its loop: the sort, and for getFeaturedBlogs the cut to limit
ConcReturn(p) ==
  /\ pc[p] = "loop"
  /\ idx[p] > Len(blogFiles)
  /\ outcome' = [outcome EXCEPT ![p] = Finish(call[p], blogMetaList[ListOf(p)])]
  /\ pc' = [pc EXCEPT ![p] = "done"]
  /\ UNCHANGED <<blogFiles, call, idx, blogMetaList, failed, parserVars, uiVars>>

ConcNext ==
  \E p \in Calls :
    \/ \E c \in ConcQueries : ConcQuery(p, c)
    \/ ConcImportResolves(p)
    \/ ConcImportRejects(p)
    \/ ConcReturn(p)

ConcSpec == ConcInit /\ [][ConcNext]_vars

(***************************************************************************)
(* getAllBlogMeta on a collection whose files are enumerated in any order. *)
(***************************************************************************)
\* what the files hold: two documents of the same date, one of a later date,
\* two with no date, one of them featured
OrderContents ==
  { Str(Doc(<<"title", ":", " ", "A", "\n",
              "date", ":", " ", "'", "2024", "-", "06", "-", "01", "'">>, <<"text">>)),
    Str(Doc(<<"title", ":", " ", "B", "\n", "featured", ":", " ", "true", "\n",
              "date", ":", " ", "'", "2024", "-", "06", "-", "01", "'">>, <<"text">>)),
    Str(Doc(<<"title", ":", " ", "C", "\n",
              "date", ":", " ", "'", "2024", "-", "06", "-", "03", "'">>, <<"text">>)),
    Str(Doc(<<"title", ":", " ", "X", "\n", "featured", ":", " ", "true">>, <<"text">>)),
    Str(<<"text">>) }

\* the orders Object.entries may give the n files in
Orders(n) == {f \in [1..n -> 1..n] : \A i, j \in 1..n : f[i] = f[j] => i = j}

\* the options given to getAllBlogMeta
OrderOptions ==
  { <<>>,
    << <<"sortOrder", Str(<<"asc">>)>> >>,
    << <<"sortBy", Str(<<"featured">>)>> >> }

OrderInit ==
  /\ \E n \in 0..MaxFiles :
       blogFiles \in {[i \in 1..n |-> <<PathOf(f[i]), c[f[i]]>>] :
                        c \in [1..n -> OrderContents], f \in Orders(n)}
  /\ ProcessorIdle
  /\ rawContent = Undefined
  /\ step = "off"
  /\ parsed = Undefined
  /\ block = Undefined
  /\ reparsed = Undefined
  /\ UiIdle

OrderNext ==
  \/ \E options \in OrderOptions : GetAllBlogMeta(options)
  \/ ImportResolves
  \/ ImportRejects
  \/ Return

OrderSpec == OrderInit /\ [][OrderNext]_vars

(***************************************************************************)
(* validateBlog run on the record extracted from one document.             *)
(***************************************************************************)
\* the metadata blocks of the documents: a line of tags, a location, a date
ValidateBlocks ==
  { tags \o <<"\n">> \o location \o <<"\n">> \o date :
      tags \in { <<"tags", ":", " ", "[", "a", ",", " ", "b", "]">>,
                 <<"tags", ":", " ", "[", "a", ",", " ", "5", "]">>,
                 <<"tags", ":", " ", "[", "null", "]">>,
                 <<"tags", ":", " ", "'", "a", ",", " ", "'">>,
                 <<"tags", ":", " ", "5">>,
                 <<"title", ":", " ", "X">> },
      location \in { Coordinates(<<"1">>, <<"2">>),
                     Coordinates(<<"'", "1", "'">>, <<"2">>),
                     <<"location", ":", " ", "X">>,
                     <<"location", ":", "\n", " ", " ", "coordinates", ":", " ", "5">>,
                     <<"rating", ":", " ", "4">> },
      date \in { <<"date", ":", " ", "'", "2024", "-", "06", "-", "01", "'">>,
                 <<"date", ":", " ", "2024", "-", "06", "-", "02">>,
                 <<"author", ":", " ", "X">> } }

ValidateInit ==
  /\ blogFiles \in {<< <<path, Str(Doc(b, <<"text">>))>> >> :
                       path \in {<<"/", "blogs", "/", "a", ".", "md">>,
                                 <<"/", "blogs", "/", ".", "md">>},
                       b \in ValidateBlocks}
  /\ ProcessorIdle
  /\ rawContent = Undefined
  /\ step = "off"
  /\ parsed = Undefined
  /\ block = Undefined
  /\ reparsed = Undefined
  /\ UiIdle

\* validateBlog(blog) on the record extractMeta returned
ValidateBlog ==
  /\ pc = "done"
  /\ call.op = "extractMeta"
  /\ outcome.t = "ok"
  /\ call' = [NoCall EXCEPT !.op = "validateBlog"]
  /\ blogMetaList' = <<outcome.v>>
  /\ outcome' = validateBlog(outcome.v)
  /\ UNCHANGED <<blogFiles, pc, idx, failed, parserVars, uiVars>>

ValidateNext == ExtractMeta \/ ValidateBlog

ValidateSpec == ValidateInit /\ [][ValidateNext]_vars

(***************************************************************************)
(* The pin store: the collection "pins" of the document database, read by  *)
(* getAllPins for the user the identity provider reports.                  *)
(***************************************************************************)
Users == {"u1", "u2"}

\* the states of authentication: not yet resolved, signed out, signed in as a user
AuthStates == {"unresolved", "signedOut"} \cup Users

\* auth.currentUser?.uid; "none" is undefined
CurrentUid == IF auth \in Users THEN auth ELSE "none"

\* the documents of the collection, each with its id and the userId it was
\* written with
StoredPins ==
  << [id |-> "s1", userId |-> "u1", title |-> "P"],
     [id |-> "s2", userId |-> "u2", title |-> "Q"],
     [id |-> "a", userId |-> "u1", title |-> "R"],
     [id |-> "s3", userId |-> "none", title |-> "S"] >>

\* the collections the store may hold: the documents of StoredPins in order,
\* each there or not
Stores ==
  { SelectSeq(StoredPins, LAMBDA d : d.id \in ids) :
      ids \in SUBSET {StoredPins[i].id : i \in 1..Len(StoredPins)} }

\* what getAllPins returns for userId on the documents docs
getAllPins(userId, docs) ==
  IF userId # "none" THEN SelectSeq(docs, LAMBDA d : d.userId = userId)
  ELSE docs

\* neither the parser nor the aggregator runs
BackendIdle ==
  /\ blogFiles = <<>>
  /\ ProcessorIdle
  /\ rawContent = Undefined
  /\ step = "off"
  /\ parsed = Undefined
  /\ block = Undefined
  /\ reparsed = Undefined

PinsInit ==
  /\ BackendIdle
  /\ auth \in AuthStates
  /\ store \in Stores
  /\ pins = <<>>
  /\ loading = FALSE
  /\ mounted = FALSE
  /\ inflight = <<>>
  /\ AlertIdle
  /\ RouteIdle

\* the identity provider reports a change: the state resolves, a user signs in
\* or out
AuthStateChanged(a) ==
  /\ pc = "idle"
  /\ a \in {"signedOut"} \cup Users
  /\ a # auth
  /\ auth' = a
  /\ UNCHANGED <<store, pins, loading, mounted, inflight, alertVars, routeVars,
                 parserVars, processorVars>>

\* getAllPins() of firestore.ts
GetAllPins ==
  /\ pc = "idle"
  /\ call' = [NoCall EXCEPT !.op = "getAllPins"]
  /\ outcome' = getAllPins(CurrentUid, store)
  /\ pc' = "done"
  /\ UNCHANGED <<blogFiles, idx, blogMetaList, failed, parserVars, uiVars>>

PinsNext ==
  \/ \E a \in AuthStates : AuthStateChanged(a)
  \/ GetAllPins

PinsSpec == PinsInit /\ [][PinsNext]_vars

(***************************************************************************)
(* AlertProvider: one alert at a time, shown by showAlert, hidden by       *)
(* hideAlert or by the timer the auto-dismiss effect started.  A timer     *)
(* remembers the alert that was on display when the effect started it.     *)
(***************************************************************************)
MaxClosed == 2

\* the callbacks passed as onClose
OnClose(k) == [t |-> "fn", v |-> k]

\* the options showAlert is called with
AlertOptions ==
  [message : {Str(<<"updated">>), Str(<<"deleted">>)},
   type : {Undefined, Str(<<"success">>)},
   title : {Undefined},
   duration : {Undefined, Num(0), Num(3000), Num(5000)},
   onClose : {Undefined, OnClose(1), OnClose(2)}]

\* the dependencies of the auto-dismiss effect that change with the alert
\* (hideAlert is the same function at every render)
Deps(a) == <<a.isVisible, a.duration>>

\* the timers after the render that follows the state prev with the state
\* next, ts running before: when a dependency changed, the cleanup of the
\* effect clears its timer and the effect runs again
AutoDismiss(prev, next, ts) ==
  IF Deps(prev) = Deps(next) THEN ts
  ELSE IF next.isVisible /\ Truthy(next.duration) /\ next.duration.v > 0
       THEN {[alert |-> next]}
       ELSE {}

\* the onClose calls after the updater of hideAlert ran on the state prev
Closing(prev) ==
  IF prev.isVisible /\ Truthy(prev.onClose) THEN Append(closed, prev.onClose)
  ELSE closed

\* the alert showAlert(o) sets
Shown(o) ==
  [message |-> o.message,
   type |-> IF o.type = Undefined THEN Str(<<"info">>) ELSE o.type,
   isVisible |-> TRUE, title |-> o.title, duration |-> o.duration,
   onClose |-> o.onClose]

AlertInit ==
  /\ BackendIdle
  /\ HookIdle
  /\ AlertIdle
  /\ RouteIdle

\* showAlert(o)
ShowAlert(o) ==
  /\ Truthy(o.onClose) => Len(closed) < MaxClosed
  /\ alert' = Shown(o)
  /\ timers' = AutoDismiss(alert, alert', timers)
  /\ UNCHANGED <<closed, hookVars, routeVars, parserVars, processorVars>>

\* hideAlert(), called by the close button
HideAlert ==
  /\ closed' = Closing(alert)
  /\ alert' = NoAlert
  /\ timers' = AutoDismiss(alert, NoAlert, timers)
  /\ UNCHANGED <<hookVars, routeVars, parserVars, processorVars>>

\* the timer t runs out: its callback calls hideAlert()
TimerFires(t) ==
  /\ t \in timers
  /\ closed' = Closing(alert)
  /\ alert' = NoAlert
  /\ timers' = AutoDismiss(alert, NoAlert, timers \ {t})
  /\ UNCHANGED <<hookVars, routeVars, parserVars, processorVars>>

AlertNext ==
  \/ \E o \in AlertOptions : ShowAlert(o)
  \/ HideAlert
  \/ \E t \in timers : TimerFires(t)

AlertSpec == AlertInit /\ [][AlertNext]_vars

(***************************************************************************)
(* useBlogPins in MapView: the hook's state pins and loading, and its      *)
(* operations in flight.  An operation gives way at its await: a load or a *)
(* reset reads the store and the blogs, then continues; addPin and         *)
(* updatePin write to the store, then continue.  The handlers of MapView   *)
(* call them; while loading is true the overlay of MapView takes the       *)
(* pointer, so a handler starts only when loading is false.                *)
(***************************************************************************)
MaxOps == 2

\* the ids the store gives to the documents addDoc creates, in order
DocIds == <<"n1", "n2">>

\* what getBlogMapPins() resolves to
BlogPins == << [id |-> "a", userId |-> "none", title |-> "B"] >>

Ids(list) == {list[i].id : i \in 1..Len(list)}

\* mergedPins: the blog pins, then the stored pins with another id
Merged(firestorePins, blogPins) ==
  blogPins \o SelectSeq(firestorePins, LAMBDA p : p.id \notin Ids(blogPins))

\* an operation in flight: what it is, where it waits, the pin it was called
\* with and the list it has merged
Op(op, stage, pin, merged) ==
  [op |-> op, stage |-> stage, pin |-> pin, merged |-> merged]

NoPin == [id |-> "", userId |-> "none", title |-> ""]

\* the operations of the hook (handleEditPin is MapView's)
HookOps == {"load", "reset", "add", "update"}

Without(s, i) == SubSeq(s, 1, i - 1) \o SubSeq(s, i + 1, Len(s))

\* how many documents of docs addDoc created
Created(docs) == Cardinality(Ids(docs) \cap {DocIds[k] : k \in 1..Len(DocIds)})

\* the documents after addDoc(collection, {...pin, userId})
Added(docs, pin) ==
  Append(docs, [pin EXCEPT !.id = DocIds[Created(docs) + 1],
                           !.userId = CurrentUid])

\* the list after prev.map((p) => (p.id === id ? {...p, ...pin} : p)), and the
\* documents after updateDoc(doc(id), pin), pin holding a title
Updated(list, id, pin) ==
  [i \in 1..Len(list) |->
     IF list[i].id = id THEN [list[i] EXCEPT !.title = pin.title] ELSE list[i]]

\* the alerts MapView shows after an add and after an edit
PinAdded ==
  [message |-> Str(<<"Pin added">>), type |-> Str(<<"success">>),
   title |-> Undefined, duration |-> Num(4000), onClose |-> Undefined]
PinUpdated ==
  [message |-> Str(<<"Pin updated!">>), type |-> Str(<<"success">>),
   title |-> Undefined, duration |-> Num(3000), onClose |-> Undefined]

HookInit ==
  /\ BackendIdle
  /\ auth = "u1"
  /\ store \in {SubSeq(StoredPins, 1, 3), SubSeq(StoredPins, 1, 2)}
  /\ pins = <<>>
  /\ loading = TRUE
  /\ mounted = FALSE
  /\ inflight = <<>>
  /\ AlertIdle
  /\ RouteIdle

\* the effect of the hook after the first render: fetchPins() up to its await
Mount ==
  /\ ~mounted
  /\ inflight = <<>>
  /\ pins = <<>>
  /\ mounted' = TRUE
  /\ loading' = TRUE
  /\ inflight' = <<Op("load", "fetching", NoPin, <<>>)>>
  /\ UNCHANGED <<auth, store, pins, alertVars, routeVars, parserVars,
                 processorVars>>

\* the cleanup of the effect
Unmount ==
  /\ mounted
  /\ mounted' = FALSE
  /\ UNCHANGED <<auth, store, pins, loading, inflight, alertVars, routeVars,
                 parserVars, processorVars>>

\* getAllFirestorePins() and getBlogMapPins() of the load or reset i resolve
Fetched(i) ==
  /\ inflight[i].op \in {"load", "reset"}
  /\ inflight[i].stage = "fetching"
  /\ inflight' = [inflight EXCEPT ![i].stage = "fetched",
                     ![i].merged = Merged(getAllPins(CurrentUid, store),
                                          BlogPins)]
  /\ UNCHANGED <<auth, store, pins, loading, mounted, alertVars, routeVars,
                 parserVars, processorVars>>

\* one of them is rejected: catch, then finally
FetchFails(i) ==
  /\ inflight[i].op \in {"load", "reset"}
  /\ inflight[i].stage = "fetching"
  /\ inflight' = Without(inflight, i)
  /\ loading' = IF inflight[i].op = "load" /\ ~mounted THEN loading ELSE FALSE
  /\ UNCHANGED <<auth, store, pins, mounted, alertVars, routeVars, parserVars,
                 processorVars>>

\* the load or reset i continues after its await: setPins, then finally
FetchDone(i) ==
  /\ inflight[i].op \in {"load", "reset"}
  /\ inflight[i].stage = "fetched"
  /\ inflight' = Without(inflight, i)
  /\ pins' = IF inflight[i].op = "load" /\ ~mounted THEN pins
             ELSE inflight[i].merged
  /\ loading' = IF inflight[i].op = "load" /\ ~mounted THEN loading ELSE FALSE
  /\ UNCHANGED <<auth, store, mounted, alertVars, routeVars, parserVars,
                 processorVars>>

\* resetPins(), called by a component
ResetPins ==
  /\ mounted /\ ~loading
  /\ Len(inflight) < MaxOps
  /\ loading' = TRUE
  /\ inflight' = Append(inflight, Op("reset", "fetching", NoPin, <<>>))
  /\ UNCHANGED <<auth, store, pins, mounted, alertVars, routeVars, parserVars,
                 processorVars>>

\* handleAddPinByCoords of MapView: addPin(newPin) up to its await
HandleAddPinByCoords(title) ==
  /\ mounted /\ ~loading
  /\ Len(inflight) < MaxOps
  /\ Created(store)
       + Cardinality({i \in 1..Len(inflight) :
                       inflight[i].op = "add" /\ inflight[i].stage = "writing"})
       < Len(DocIds)
  /\ loading' = TRUE
  /\ inflight' = Append(inflight,
       Op("add", "writing",
          [id |-> "", userId |-> CurrentUid, title |-> title], <<>>))
  /\ UNCHANGED <<auth, store, pins, mounted, alertVars, routeVars, parserVars,
                 processorVars>>

\* addDoc of the add i resolves: the document is in the store
AddWritten(i) ==
  /\ inflight[i].op = "add"
  /\ inflight[i].stage = "writing"
  /\ store' = Added(store, inflight[i].pin)
  /\ inflight' = [inflight EXCEPT ![i].stage = "written",
                     ![i].pin.id = store'[Len(store')].id]
  /\ UNCHANGED <<auth, pins, loading, mounted, alertVars, routeVars,
                 parserVars, processorVars>>

\* the add i continues after its await: setPins, finally, and the alert of
\* handleAddPinByCoords
AddDone(i) ==
  /\ inflight[i].op = "add"
  /\ inflight[i].stage = "written"
  /\ pins' = Append(pins, inflight[i].pin)
  /\ loading' = FALSE
  /\ inflight' = Without(inflight, i)
  /\ alert' = Shown(PinAdded)
  /\ timers' = AutoDismiss(alert, alert', timers)
  /\ UNCHANGED <<auth, store, mounted, closed, routeVars, parserVars,
                 processorVars>>

\* addDoc of the add i is rejected: catch, finally, and the alert
AddFails(i) ==
  /\ inflight[i].op = "add"
  /\ inflight[i].stage = "writing"
  /\ loading' = FALSE
  /\ inflight' = Without(inflight, i)
  /\ alert' = Shown(PinAdded)
  /\ timers' = AutoDismiss(alert, alert', timers)
  /\ UNCHANGED <<auth, store, pins, mounted, closed, routeVars, parserVars,
                 processorVars>>

\* updatePin(id, pin) of the hook up to its await
UpdatePin(id, title) ==
  /\ mounted /\ ~loading
  /\ Len(inflight) < MaxOps
  /\ id \in Ids(pins)
  /\ loading' = TRUE
  /\ inflight' = Append(inflight,
       Op("update", "writing", [NoPin EXCEPT !.id = id, !.title = title],
          <<>>))
  /\ UNCHANGED <<auth, store, pins, mounted, alertVars, routeVars, parserVars,
                 processorVars>>

\* handleEditPin of MapView up to its await of updateFirestorePin
HandleEditPin(id, title) ==
  /\ mounted /\ ~loading
  /\ Len(inflight) < MaxOps
  /\ id \in Ids(pins)
  /\ inflight' = Append(inflight,
       Op("edit", "writing", [NoPin EXCEPT !.id = id, !.title = title],
          <<>>))
  /\ UNCHANGED <<auth, store, pins, loading, mounted, alertVars, routeVars,
                 parserVars, processorVars>>

\* updateDoc of the update or edit i resolves: the document is changed
UpdateWritten(i) ==
  /\ inflight[i].op \in {"update", "edit"}
  /\ inflight[i].stage = "writing"
  /\ inflight[i].pin.id \in Ids(store)
  /\ store' = Updated(store, inflight[i].pin.id, inflight[i].pin)
  /\ inflight' = [inflight EXCEPT ![i].stage = "written"]
  /\ UNCHANGED <<auth, pins, loading, mounted, alertVars, routeVars,
                 parserVars, processorVars>>

\* the update i continues after its await: setPins, finally
UpdateDone(i) ==
  /\ inflight[i].op = "update"
  /\ inflight[i].stage = "written"
  /\ pins' = Updated(pins, inflight[i].pin.id, inflight[i].pin)
  /\ loading' = FALSE
  /\ inflight' = Without(inflight, i)
  /\ UNCHANGED <<auth, store, mounted, alertVars, routeVars, parserVars,
                 processorVars>>

\* updateDoc of the update i is rejected (it is when the store has no such
\* document): catch, finally
UpdateFails(i) ==
  /\ inflight[i].op = "update"
  /\ inflight[i].stage = "writing"
  /\ loading' = FALSE
  /\ inflight' = Without(inflight, i)
  /\ UNCHANGED <<auth, store, pins, mounted, alertVars, routeVars, parserVars,
                 processorVars>>

\* handleEditPin continues after its await: the alert, then resetPins() up
\* to its await
EditDone(i) ==
  /\ inflight[i].op = "edit"
  /\ inflight[i].stage = "written"
  /\ alert' = Shown(PinUpdated)
  /\ timers' = AutoDismiss(alert, alert', timers)
  /\ loading' = TRUE
  /\ inflight' = Append(Without(inflight, i),
                        Op("reset", "fetching", NoPin, <<>>))
  /\ UNCHANGED <<auth, store, pins, mounted, closed, routeVars, parserVars,
                 processorVars>>

\* updateDoc of the edit i is rejected: handleEditPin ends there
EditFails(i) ==
  /\ inflight[i].op = "edit"
  /\ inflight[i].stage = "writing"
  /\ inflight' = Without(inflight, i)
  /\ UNCHANGED <<auth, store, pins, loading, mounted, alertVars, routeVars,
                 parserVars, processorVars>>

Titles == {"T"}

HookNext ==
  \/ Mount
  \/ Unmount
  \/ ResetPins
  \/ \E title \in Titles : HandleAddPinByCoords(title)
  \/ \E id \in Ids(pins), title \in Titles : UpdatePin(id, title)
  \/ \E id \in Ids(pins), title \in Titles : HandleEditPin(id, title)
  \/ \E i \in 1..Len(inflight) : Fetched(i)
  \/ \E i \in 1..Len(inflight) : FetchFails(i)
  \/ \E i \in 1..Len(inflight) : FetchDone(i)
  \/ \E i \in 1..Len(inflight) : AddWritten(i)
  \/ \E i \in 1..Len(inflight) : AddDone(i)
  \/ \E i \in 1..Len(inflight) : AddFails(i)
  \/ \E i \in 1..Len(inflight) : UpdateWritten(i)
  \/ \E i \in 1..Len(inflight) : UpdateDone(i)
  \/ \E i \in 1..Len(inflight) : UpdateFails(i)
  \/ \E i \in 1..Len(inflight) : EditDone(i)
  \/ \E i \in 1..Len(inflight) : EditFails(i)
  \/ HideAlert
  \/ \E t \in timers : TimerFires(t)

HookSpec == HookInit /\ [][HookNext]_vars

(***************************************************************************)
(* The route selection of the legacy App: the travels list of each pin,    *)
(* pin i of the code at position i + 1, and the indices startIdx and       *)
(* endIdx.  Each handler runs on the state of the render before it: React  *)
(* renders between two events.                                             *)
(***************************************************************************)
MaxPins == 3

\* the indices of the pins on the map
PinIdx == 0..(Len(travels) - 1)

\* pin.travels.includes(idx) ? pin.travels : [...pin.travels, idx]
WithTravel_Appended(list, index) == Append(list, index)
WithTravel(list, index) ==
  IF \E k \in 1..Len(list) : list[k] = index THEN list ELSE Append(list, index)

RouteInit ==
  /\ BackendIdle
  /\ HookIdle
  /\ AlertIdle
  /\ travels = <<>>
  /\ startIdx = NoIdx
  /\ endIdx = NoIdx

\* handleMapClick(e), a place name given at the prompt
HandleMapClick ==
  /\ Len(travels) < MaxPins
  /\ travels' = Append(travels, <<>>)
  /\ UNCHANGED <<startIdx, endIdx, hookVars, alertVars, parserVars,
                 processorVars>>

\* handleSetStart(idx)
HandleSetStart(index) ==
  /\ startIdx' = index
  /\ endIdx' = IF endIdx = index THEN NoIdx ELSE endIdx
  /\ UNCHANGED <<travels, hookVars, alertVars, parserVars, processorVars>>

\* handleSetEnd(idx)
HandleSetEnd(index) ==
  /\ endIdx' = index
  /\ startIdx' = IF startIdx = index THEN NoIdx ELSE startIdx
  /\ travels' =
       IF startIdx # NoIdx /\ startIdx # index
       THEN [i \in 1..Len(travels) |->
               IF i - 1 = startIdx THEN WithTravel(travels[i], index)
               ELSE travels[i]]
       ELSE travels
  /\ UNCHANGED <<hookVars, alertVars, parserVars, processorVars>>

RouteNext ==
  \/ HandleMapClick
  \/ \E index \in PinIdx : HandleSetStart(index)
  \/ \E index \in PinIdx : HandleSetEnd(index)

RouteSpec == RouteInit /\ [][RouteNext]_vars

(***************************************************************************)
(* Properties of the parser                                                *)
(***************************************************************************)
\* the default record, as a mapping
DefaultFields ==
  [draft |-> Bool(FALSE), featured |-> Bool(FALSE), tags |-> List(<<>>)]

\* the document opens with the delimiter once trimmed
Opens == StartsWith(Trim(rawContent.v), OPEN)

\* what the text between the two delimiters of the document decodes to;
\* Undefined when the document has no delimited block
Declared ==
  LET x == Trim(rawContent.v)
      close == IndexOf(x, CLOSE, 3)
  IN IF Opens /\ close # -1 THEN [found |-> TRUE, data |-> YamlLoad(Trim(Slice(x, 3, close)))]
     ELSE [found |-> FALSE, data |-> Undefined]

\* the value the decoded block gives for a key
DeclaredFor(k) ==
  IF Declared.found /\ Declared.data.t = "map" THEN Get(Declared.data.v, k)
  ELSE Undefined

\* the result of parse is the no-metadata result
IsFallback(r) ==
  /\ r.t = "ok"
  /\ r.v.hasFrontmatter = FALSE
  /\ AsMapping(r.v.frontmatter) = DefaultFields
  /\ r.v.content = rawContent.v

\* C4: a document that, trimmed, does not begin with the delimiter parses to
\* hasFrontmatter = false, the default fields and the untrimmed input as content
C4_NoDelimiterKeepsInput == (step # "input" /\ ~Opens) => IsFallback(parsed)

C4_Witness ==
  /\ step = "parsed" /\ ~Opens
  /\ Trim(rawContent.v) # rawContent.v
  /\ parsed.v.content = rawContent.v

\* C5: a delimited block that does not decode gives the no-metadata result,
\* and parse does not raise
C5_UndecodableIsFallback ==
  (step # "input" /\ Declared.found /\ Declared.data = Throw) => IsFallback(parsed)

C5_Witness ==
  /\ step = "parsed" /\ Declared.found /\ Declared.data = Throw
  /\ IsFallback(parsed)

\* C6: round trip: the fields parsed from a valid block, serialized by create and
\* parsed again, are the same fields, and hasFrontmatter is true again
C6_RoundTrip ==
  (step = "reparsed" /\ parsed.v.hasFrontmatter) =>
    /\ reparsed.t = "ok"
    /\ reparsed.v.hasFrontmatter
    /\ AsMapping(reparsed.v.frontmatter) = AsMapping(parsed.v.frontmatter)

C6_Witness ==
  /\ step = "reparsed" /\ parsed.v.hasFrontmatter
  /\ Get(parsed.v.frontmatter, "title") = Str(<<"true">>)
  /\ Get(parsed.v.frontmatter, "tags") = List(<<Str(<<"a">>), Str(<<"b">>)>>)
  /\ AsMapping(reparsed.v.frontmatter) = AsMapping(parsed.v.frontmatter)

\* the pieces of a comma-separated text, each trimmed, in order
TrimmedPieces(x) ==
  LET parts == Split(x, ",") IN [i \in 1..Len(parts) |-> Str(Trim(parts[i]))]

\* C7: tags declared as a comma-separated string parse to the list of the
\* pieces, each trimmed, in order
C7_CommaStringIsSplit ==
  (step # "input" /\ DeclaredFor("tags").t = "str" /\ DeclaredFor("tags").v # <<>>) =>
    Get(parsed.v.frontmatter, "tags") = List(TrimmedPieces(DeclaredFor("tags").v))

C7_Witness ==
  /\ step = "parsed"
  /\ DeclaredFor("tags") = Str(<<"a", ",", " ", "b", ",", "c">>)
  /\ Get(parsed.v.frontmatter, "tags") = List(<<Str(<<"a">>), Str(<<"b">>), Str(<<"c">>)>>)

\* C8: in every result of parse, tags is a list of trimmed strings
C8_TagsIsListOfTrimmedStrings ==
  (step # "input" /\ parsed.t = "ok" /\ HasKey(parsed.v.frontmatter, "tags")) =>
    LET tags == Get(parsed.v.frontmatter, "tags")
    IN /\ tags.t = "list"
       /\ \A i \in 1..Len(tags.v) :
            tags.v[i].t = "str" /\ Trim(tags.v[i].v) = tags.v[i].v

\* C9: in every result of parse, draft and featured are booleans
C9_FlagsAreBooleans ==
  \A r \in {parsed, reparsed} :
    r.t = "ok" =>
      \A k \in {"draft", "featured"} :
        HasKey(r.v.frontmatter, k) => Get(r.v.frontmatter, k).t = "bool"

C9_Witness ==
  /\ step = "parsed"
  /\ DeclaredFor("draft") = Str(<<"yes">>)
  /\ DeclaredFor("featured").t = "undef"
  /\ Get(parsed.v.frontmatter, "draft") = Bool(TRUE)
  /\ Get(parsed.v.frontmatter, "featured") = Bool(FALSE)

(***************************************************************************)
(* Properties of the aggregator                                            *)
(***************************************************************************)
\* the call has returned or raised
Done(ops) == pc = "done" /\ call.op \in ops

ListQueries == {"getAllBlogMeta", "getFeaturedBlogs"}

\* the record extracted from file i
MetaOf(i) == extractMeta(blogFiles[i][2], blogFiles[i][1])

\* the records of a returned list
Records == outcome.v.v

\* the record passes the draft, required-field and filter checks of the call
PassesChecks(meta) ==
  /\ Truthy(Get(call.opts, "includeDrafts")) \/ ~Truthy(Get(meta, "draft"))
  /\ \A i \in 1..Len(Get(call.opts, "requiredFields").v) :
       Get(meta, Get(call.opts, "requiredFields").v[i].v[1])
         \notin {Undefined, Null, Str(<<>>)}
  /\ passesFilter(meta, Get(call.opts, "filterBy").v)

\* C1: the list getAllBlogMeta returns with includeDrafts = false (given or by
\* default) holds no record whose draft field is true
C1_NoDraftUnlessAsked ==
  (Done(ListQueries) /\ Get(call.opts, "includeDrafts") = Bool(FALSE)) =>
    /\ outcome.t = "ok"
    /\ \A j \in 1..Len(Records) : Get(Records[j], "draft") # Bool(TRUE)

C1_Witness ==
  /\ Done({"getAllBlogMeta"}) /\ Get(call.opts, "includeDrafts") = Bool(FALSE)
  /\ \E i \in 1..Len(blogFiles) :
       i \notin failed /\ Get(MetaOf(i).v, "draft") = Bool(TRUE)
  /\ Len(Records) = 1

\* C2: in getAllBlogMeta a file whose import or extraction fails is skipped:
\* the call returns, and every other file whose record passes the draft,
\* required-field and filter checks has its record in the list
C2_FailedFileIsSkipped ==
  Done({"getAllBlogMeta"}) =>
    /\ outcome.t = "ok"
    /\ \A i \in 1..Len(blogFiles) :
         (i \notin failed /\ PassesChecks(MetaOf(i).v)) =>
           \E j \in 1..Len(Records) : Records[j] = MetaOf(i).v

C2_Witness ==
  /\ Done({"getAllBlogMeta"})
  /\ Len(blogFiles) = 2 /\ failed = {2}
  /\ blogFiles[2][2].t = "str"
  /\ Records = <<MetaOf(1).v>>

RECURSIVE CollectFrom(_, _, _)
\* the list the loop collects from file i on when every import resolves, the
\* files of skip left out of the collection
CollectFrom(i, skip, list) ==
  IF i > Len(blogFiles) THEN list
  ELSE CollectFrom(i + 1, skip,
         IF i \in skip THEN list
         ELSE ProcessFile(call.opts, list, blogFiles[i][2], blogFiles[i][1]))

TimeOf(x) == IF Truthy(Get(x, "date")) THEN DateTime(Get(x, "date")).v ELSE 0

\* C10: getFeaturedBlogs(n) returns at most n records (n = 0 included), each
\* featured and no draft, latest date first
C10_FeaturedAtMostLimit ==
  (Done({"getFeaturedBlogs"}) /\ call.limit.t = "num") =>
    /\ outcome.t = "ok"
    /\ Len(Records) <= call.limit.v
    /\ \A j \in 1..Len(Records) :
         /\ Get(Records[j], "featured") = Bool(TRUE)
         /\ Get(Records[j], "draft") = Bool(FALSE)
    /\ \A j, k \in 1..Len(Records) : j < k => TimeOf(Records[j]) >= TimeOf(Records[k])

(***************************************************************************)
(* Properties of the queries built on getAllBlogMeta                       *)
(***************************************************************************)
\* the files whose record the call has extracted and not left out as a draft
\* or for a missing required field
Extracted ==
  {i \in 1..Len(blogFiles) :
     /\ i \notin failed
     /\ Truthy(Get(call.opts, "includeDrafts")) \/ ~Truthy(Get(MetaOf(i).v, "draft"))
     /\ \A k \in 1..Len(Get(call.opts, "requiredFields").v) :
          Get(MetaOf(i).v, Get(call.opts, "requiredFields").v[k].v[1])
            \notin {Undefined, Null, Str(<<>>)}}

RECURSIVE SumSeq(_)
SumSeq(ns) == IF ns = <<>> THEN 0 ELSE ns[1] + SumSeq(Tail(ns))

\* the number of tag occurrences over the records extracted
TagOccurrences ==
  SumSeq([i \in 1..Len(blogFiles) |->
            IF i \in Extracted THEN Len(Get(MetaOf(i).v, "tags").v) ELSE 0])

\* C11: the counts getTagsWithCounts returns sum to the number of tag
\* occurrences over the records (drafts left out unless asked for), each tag
\* appears once, and the counts do not increase along the list
C11_TagCountsSumToOccurrences ==
  Done({"getTagsWithCounts"}) =>
    /\ outcome.t = "ok"
    /\ \A j \in 1..Len(Records) : Get(Records[j].v, "count").t = "num"
    /\ SumSeq([j \in 1..Len(Records) |-> Get(Records[j].v, "count").v]) = TagOccurrences
    /\ \A j, k \in 1..Len(Records) :
         j < k => /\ Get(Records[j].v, "tag") # Get(Records[k].v, "tag")
                  /\ Get(Records[j].v, "count").v >= Get(Records[k].v, "count").v

\* the filter of the call
FilterBy == Get(call.opts, "filterBy").v

\* the record shares a tag with the tag list of the filter
SharesTag(meta) ==
  \E t \in 1..Len(Get(FilterBy, "tags").v) :
    \E u \in 1..Len(Get(meta, "tags").v) :
      Get(meta, "tags").v[u] = Get(FilterBy, "tags").v[t]

\* the record passes the category, featured and author clauses of the filter
PassesPlainClauses(meta) ==
  /\ Truthy(Get(FilterBy, "category")) => Get(meta, "category") = Get(FilterBy, "category")
  /\ Get(FilterBy, "featured") # Undefined => Get(meta, "featured") = Get(FilterBy, "featured")
  /\ Truthy(Get(FilterBy, "author")) => Get(meta, "author") = Get(FilterBy, "author")

\* the list returned holds exactly the records of the files of S, each once
ReturnsExactly(S) ==
  /\ outcome.t = "ok"
  /\ Len(Records) = Cardinality(S)
  /\ \A i \in S : \E j \in 1..Len(Records) : Records[j] = MetaOf(i).v

\* a getAllBlogMeta call has returned whose filter has a tag list and neither
\* a hasLocation nor a dateRange clause
DoneWithTagsFilter ==
  /\ Done({"getAllBlogMeta"})
  /\ Get(FilterBy, "tags").t = "list"
  /\ Get(FilterBy, "hasLocation") = Undefined
  /\ Get(FilterBy, "dateRange") = Undefined

InDateRange(meta) ==
  LET range == Get(FilterBy, "dateRange")
      date == Get(meta, "date")
  IN /\ Truthy(date)
     /\ DateTime(date).t = "num"
     /\ Truthy(Prop(range, "start")) => DateTime(date).v >= DateTime(Prop(range, "start")).v
     /\ Truthy(Prop(range, "end")) => DateTime(date).v <= DateTime(Prop(range, "end")).v

\* C13: with a dateRange filter that gives a start or an end, getAllBlogMeta
\* returns exactly the records whose date is within the bounds given; a record
\* with no date is not returned
C13_DateRangeDropsUndated ==
  ( /\ Done({"getAllBlogMeta"})
    /\ Truthy(Prop(Get(FilterBy, "dateRange"), "start"))
         \/ Truthy(Prop(Get(FilterBy, "dateRange"), "end")) ) =>
    ReturnsExactly({i \in Extracted : InDateRange(MetaOf(i).v)})

\* C14: with a hasLocation filter getAllBlogMeta returns exactly the records
\* whose "has coordinates" boolean (hasCoordinates, the predicate of
\* getBlogMapPins) equals the filter value
C14_HasLocationIsHasCoordinates ==
  (Done({"getAllBlogMeta"}) /\ Get(FilterBy, "hasLocation") # Undefined) =>
    ReturnsExactly({i \in Extracted :
                      Bool(hasCoordinates(MetaOf(i).v)) = Get(FilterBy, "hasLocation")})

\* the record has a lat and a lng in location.coordinates
HasLatAndLng(meta) ==
  LET coordinates == Prop(Get(meta, "location"), "coordinates")
  IN /\ Prop(coordinates, "lat") \notin {Undefined, Null}
     /\ Prop(coordinates, "lng") \notin {Undefined, Null}

\* C15: getBlogMapPins returns one pin, with the slug for id, for every record
\* that is no draft and has a lat and a lng in location.coordinates, and no
\* other pin
C15_OnePinPerLocatedRecord ==
  Done({"getBlogMapPins"}) =>
    /\ outcome.t = "ok"
    /\ Len(Records) = Cardinality({i \in Extracted : HasLatAndLng(MetaOf(i).v)})
    /\ \A i \in Extracted :
         HasLatAndLng(MetaOf(i).v) =>
           \E j \in 1..Len(Records) : Get(Records[j].v, "id") = Get(MetaOf(i).v, "slug")

\* the term of the text search of the call, as searchBlogs compares it
SearchTerm ==
  IF Truthy(Get(call.query, "search")) THEN toLowerCase(Get(call.query, "search").v) ELSE <<>>

\* the record is left after the filters and the text search of the call
Matches(meta) ==
  /\ passesFilter(meta, FilterBy)
  /\ Truthy(Get(call.query, "search")) => MatchesSearch(meta, SearchTerm) = Bool(TRUE)

\* the records left after filtering and text search, in the order of the listing
Matching ==
  SelectSeq(sortBlogs(blogMetaList, Get(call.opts, "sortBy"), Get(call.opts, "sortOrder")),
            Matches)

Offset == OrElse(Get(call.query, "offset"), Num(0)).v

Page == Get(outcome.v.v, "blogs").v

\* C17: in a result of searchBlogs (offset and limit not negative) totalCount
\* is the number of records left after filtering and text search, the page is
\* the run of those records that starts at offset, of at most limit records
\* when a limit is given, and hasMore is true iff offset + the number of
\* records returned < totalCount
C17_SearchPage ==
  (Done({"searchBlogs"}) /\ outcome # Throw) =>
    LET totalCount == Cardinality({i \in Extracted : Matches(MetaOf(i).v)})
        rest == Max(0, totalCount - Offset)
    IN /\ Get(outcome.v.v, "totalCount") = Num(totalCount)
       /\ Len(Matching) = totalCount
       /\ Len(Page) = IF Truthy(Get(call.query, "limit"))
                        THEN Min(Get(call.query, "limit").v, rest) ELSE rest
       /\ Page = SubSeq(Matching, Offset + 1, Offset + Len(Page))
       /\ Get(outcome.v.v, "hasMore") = Bool(Offset + Len(Page) < totalCount)

\* searchBlogs with a search term has returned the second of two matching
\* records as the page at offset 1
C17_Witness ==
  /\ Done({"searchBlogs"})
  /\ outcome # Throw
  /\ Truthy(Get(call.query, "search"))
  /\ Offset = 1
  /\ Get(outcome.v.v, "totalCount") = Num(2)
  /\ Len(Page) = 1
  /\ Page[1] # Matching[1]

\* the date of the record is absent or one new Date() reads
Dated(meta) == Truthy(Get(meta, "date")) => DateTime(Get(meta, "date")) # NaN

\* C18: with the default options (sort by date, descending) the date of each
\* record of the list getAllBlogMeta returns is not earlier than the date of
\* the record after it, a record with no date counting as of the instant 0;
\* for records whose date, when they have one, reads as a date
C18_LatestFirst ==
  (/\ Done({"getAllBlogMeta"})
   /\ Get(call.opts, "sortBy") = Get(DEFAULT_BLOG_PROCESSING_OPTIONS, "sortBy")
   /\ Get(call.opts, "sortOrder") = Get(DEFAULT_BLOG_PROCESSING_OPTIONS, "sortOrder")
   /\ \A i \in Extracted : Dated(MetaOf(i).v)) =>
    /\ outcome.t = "ok"
    /\ \A j \in 1..(Len(Records) - 1) : TimeOf(Records[j]) >= TimeOf(Records[j + 1])

\* getAllBlogMeta with the default options has returned the record of the
\* second file, which has a date, before that of the first, which has none
C18_Witness ==
  /\ Done({"getAllBlogMeta"})
  /\ Get(call.opts, "filterBy") = Map(<<>>)
  /\ outcome.t = "ok"
  /\ Len(Records) = 2
  /\ Records[1] = MetaOf(2).v
  /\ Records[2] = MetaOf(1).v
  /\ ~Truthy(Get(Records[2], "date"))
  /\ TimeOf(Records[1]) > 0

(***************************************************************************)
(* Properties of getBlogStats                                              *)
(***************************************************************************)
\* the files whose record the first query of getBlogStats extracted, drafts
\* included
StatsRecords ==
  {i \in 1..Len(blogFiles) :
     /\ i \notin call.returned[1].failed
     /\ \A k \in 1..Len(Get(DEFAULT_BLOG_PROCESSING_OPTIONS, "requiredFields").v) :
          Get(MetaOf(i).v, Get(DEFAULT_BLOG_PROCESSING_OPTIONS, "requiredFields").v[k].v[1])
            \notin {Undefined, Null, Str(<<>>)}}

Stat(name) == Get(outcome.v.v, name)

\* C16 as stated: postsWithLocation of getBlogStats is the number of records,
\* drafts included, whose location holds coordinates
C16_CountsCoordinateBearing ==
  (Done({"getBlogStats"}) /\ outcome # Throw) =>
    Stat("postsWithLocation") =
      Num(Cardinality({i \in StatsRecords :
                         Truthy(Prop(Get(MetaOf(i).v, "location"), "coordinates"))}))

\* C16: postsWithLocation of getBlogStats is the number of records, drafts
\* included, that have a location, with coordinates or without
C16_CountsEveryLocation ==
  (Done({"getBlogStats"}) /\ outcome # Throw) =>
    Stat("postsWithLocation") =
      Num(Cardinality({i \in StatsRecords : Truthy(Get(MetaOf(i).v, "location"))}))

\* getBlogStats has counted two records with a location: a draft, and a record
\* whose location holds no coordinates
C16_Witness ==
  /\ Done({"getBlogStats"})
  /\ outcome # Throw
  /\ Stat("postsWithLocation") = Num(2)
  /\ \E i \in StatsRecords : Truthy(Get(MetaOf(i).v, "draft"))
  /\ \E i \in StatsRecords :
       /\ Truthy(Get(MetaOf(i).v, "location"))
       /\ ~Truthy(Prop(Get(MetaOf(i).v, "location"), "coordinates"))

(***************************************************************************)
(* Properties of the extractor                                             *)
(***************************************************************************)
\* what parse returned for the document
ParsedDoc == parse(blogFiles[1][2]).v

\* the file name: what follows the last "/" of the path
FileName ==
  LET path == blogFiles[1][1]
      slashes == {i \in 1..Len(path) : path[i] = "/"}
      last == IF slashes = {} THEN 0 ELSE CHOOSE i \in slashes : \A j \in slashes : i >= j
  IN SubSeq(path, last + 1, Len(path))

\* the slug with its hyphens as spaces and each of its words capitalized
TitleCased(slug) ==
  [i \in 1..Len(slug) |->
     IF slug[i] = "-" THEN " "
     ELSE IF i = 1 \/ slug[i - 1] = "-" THEN Capitalize(<<slug[i]>>)[1]
     ELSE slug[i]]

\* the value is one validate takes as present
NonEmpty(x) == x \notin {Undefined, Null, Str(<<>>)}

\* the first available of the metadata title, the first heading of the
\* content, the title-cased slug and "Untitled"
FirstAvailableTitle ==
  LET slug == Get(outcome.v, "slug").v
  IN IF Truthy(Get(ParsedDoc.frontmatter, "title")) THEN Get(ParsedDoc.frontmatter, "title")
     ELSE IF Truthy(extractTitleFromContent(ParsedDoc.content))
       THEN extractTitleFromContent(ParsedDoc.content)
     ELSE IF TitleCased(slug) # <<>> THEN Str(TitleCased(slug))
     ELSE Str(<<"Untitled">>)

\* C19: the record extractMeta builds has a title that is not empty and is the
\* first available of the metadata title, the first heading of the content,
\* the title-cased slug and "Untitled"
C19_TitleFallback ==
  (Done({"extractMeta"}) /\ outcome.t = "ok") =>
    /\ NonEmpty(Get(outcome.v, "title"))
    /\ Get(outcome.v, "title") = FirstAvailableTitle

\* extractMeta has given a document with no metadata title and no heading the
\* title-cased slug as its title
C19_Witness ==
  /\ Done({"extractMeta"})
  /\ outcome.t = "ok"
  /\ ~Truthy(Get(ParsedDoc.frontmatter, "title"))
  /\ ~Truthy(extractTitleFromContent(ParsedDoc.content))
  /\ Get(outcome.v, "title") = Str(<<"My", " ", "Trip">>)

\* the keys of the metadata the record gives a meaning of its own
RecordKeys ==
  {"title", "date", "author", "tags", "category", "description", "location",
   "featured", "draft", "slug", "filePath", "hasFrontmatter"}

\* C20: the slug of the record is the file name without directory and without
\* the .md suffix; slug, filePath and hasFrontmatter are those of the file
\* and of parse whatever the metadata declares under these names; every other
\* key of the metadata that is not a field of the record is copied onto it
C20_SlugAndCustomFields ==
  (Done({"extractMeta"}) /\ outcome.t = "ok") =>
    /\ Get(outcome.v, "slug") =
         Str(IF EndsWith(FileName, <<".", "md">>)
               THEN SubSeq(FileName, 1, Len(FileName) - 2) ELSE FileName)
    /\ Get(outcome.v, "filePath") = Str(blogFiles[1][1])
    /\ Get(outcome.v, "hasFrontmatter") = Bool(ParsedDoc.hasFrontmatter)
    /\ \A key \in Keys(ParsedDoc.frontmatter) \ RecordKeys :
         /\ HasKey(outcome.v, key)
         /\ Get(outcome.v, key) = Get(ParsedDoc.frontmatter, key)

(***************************************************************************)
(* Properties of validateBlog                                              *)
(***************************************************************************)
\* C21: validateBlog never raises: whatever the record holds, it returns a
\* result with isValid, missingFields, errors and warnings
C21_ValidateNeverRaises ==
  Done({"validateBlog"}) =>
    /\ outcome.t = "ok"
    /\ Keys(outcome.v) = {"isValid", "missingFields", "errors", "warnings"}

(***************************************************************************)
(* Properties of two queries at once                                       *)
(***************************************************************************)
RECURSIVE CollectAlone(_, _, _, _, _)
\* the list a query with the options opts collects from file i of files on
\* when it runs alone and the files of skip fail
CollectAlone(files, opts, i, skip, list) ==
  IF i > Len(files) THEN list
  ELSE CollectAlone(files, opts, i + 1, skip,
         IF i \in skip THEN list
         ELSE ProcessFile(opts, list, files[i][2], files[i][1]))

\* C22: two queries interleaved at the awaits of their imports do not
\* interfere: each returns what it returns when it runs alone on the same
\* documents with the same imports failing
C22_QueriesDoNotInterfere ==
  \A p \in Calls :
    pc[p] = "done" =>
      outcome[p] = Finish(call[p], CollectAlone(blogFiles, call[p].opts, 1, failed[p], <<>>))

\* two different queries have returned different lists that are not empty
C22_Witness ==
  /\ \A p \in Calls : pc[p] = "done" /\ outcome[p].t = "ok" /\ outcome[p].v.v # <<>>
  /\ call[1] # call[2]
  /\ outcome[1] # outcome[2]
  /\ failed[1] # failed[2]

(***************************************************************************)
(* Properties of the order of enumeration                                  *)
(***************************************************************************)
\* where the file named FileNames[i] is in the enumeration
PlaceOf(i) == CHOOSE j \in 1..Len(blogFiles) : blogFiles[j][1] = PathOf(i)

\* the same files enumerated in the order of their names
ByName == [i \in 1..Len(blogFiles) |-> blogFiles[PlaceOf(i)]]

\* what the call returns on the files enumerated in the order of their names,
\* the same imports failing
ReturnedByName ==
  AllBlogMeta(call.opts,
              CollectAlone(ByName, call.opts, 1,
                           {i \in 1..Len(blogFiles) : PlaceOf(i) \in failed}, <<>>))

\* the key the call sorts a record by
SortKey(meta) ==
  IF Get(call.opts, "sortBy") = Str(<<"date">>) THEN TimeOf(meta)
  ELSE IF Truthy(Get(meta, "featured")) THEN 1 ELSE 0

CategoryTotal ==
  SumSeq([i \in 1..Len(Stat("postsByCategory").v) |-> Stat("postsByCategory").v[i][2].v])

\* C25: the statistics of one call of getBlogStats agree with each other even
\* when imports fail during the call: the counts of postsByCategory sum to
\* at most totalPosts, and totalPosts = publishedPosts + draftPosts
C25_StatsAgree ==
  (Done({"getBlogStats"}) /\ outcome # Throw) =>
    /\ CategoryTotal <= Stat("totalPosts").v
    /\ Stat("totalPosts").v = Stat("publishedPosts").v + Stat("draftPosts").v

(***************************************************************************)
(* Properties of the pin store                                             *)
(***************************************************************************)
\* C24: in every state of authentication getAllPins returns only pins of the
\* current user: each pin returned has the current user's id as its userId,
\* and no pin of a user is returned when there is no current user
C24_PinsOfCurrentUserOnly ==
  Done({"getAllPins"}) =>
    \A j \in 1..Len(outcome) :
      /\ outcome[j].userId \in Users => outcome[j].userId = auth
      /\ auth \in Users => outcome[j].userId = auth

(***************************************************************************)
(* Properties of AlertProvider                                             *)
(***************************************************************************)
\* C29: an auto-dismiss timer only hides the alert for which it was started:
\* whenever a timer runs out, the alert on display, which it hides and whose
\* onClose it calls, is the alert that was on display when it was started
C29_TimerHidesItsOwnAlert ==
  [][\A t \in timers : TimerFires(t) => t.alert = alert]_vars

(***************************************************************************)
(* Properties of useBlogPins                                               *)
(***************************************************************************)
\* C26: in every state of the mounted hook the pins of the list have
\* pairwise distinct ids
C26_DistinctIds ==
  mounted =>
    \A i, j \in 1..Len(pins) : i # j => pins[i].id # pins[j].id

\* C27: when no operation is in flight, every pin addPin wrote to the store
\* is in the list of the mounted hook
C27_AddedPinStays ==
  (mounted /\ inflight = <<>>) =>
    \A k \in 1..Len(DocIds) : DocIds[k] \in Ids(store) => DocIds[k] \in Ids(pins)

\* C28: in the mounted hook loading is true exactly when one of its
\* operations is in flight
C28_LoadingWhileInFlight ==
  mounted =>
    (loading <=> \E i \in 1..Len(inflight) : inflight[i].op \in HookOps)

(***************************************************************************)
(* Properties of the route selection                                       *)
(***************************************************************************)
\* C30: after any sequence of handleSetStart and handleSetEnd calls the start
\* index and the end index are not the same pin, and the travels list of no
\* pin holds the pin's own index or an index twice
C30_RouteSelection ==
  /\ startIdx # NoIdx => startIdx # endIdx
  /\ \A i \in 1..Len(travels) :
       /\ \A k \in 1..Len(travels[i]) : travels[i][k] # i - 1
       /\ \A k, l \in 1..Len(travels[i]) :
            k # l => travels[i][k] # travels[i][l]

\* a start and an end are selected, the end was set twice from this start,
\* and the start has two travels
C30_Witness ==
  /\ startIdx # NoIdx
  /\ endIdx # NoIdx
  /\ Len(travels[startIdx + 1]) = 2
  /\ endIdx = travels[startIdx + 1][1]
====
